---- MODULE Spec2Model ----
(***************************************************************************)
(* Model of the UI/UX analysis edge function: the JSON-schema validator    *)
(* and the V6 normalizer (validation.ts), the SSE writer utilities         *)
(* (sse-utils.ts) and the streaming request handler (index.ts).            *)
(***************************************************************************)
EXTENDS Integers, Sequences, FiniteSets, TLC

(***************************************************************************)
(* JavaScript values.  Every value is a record with its kind in field k   *)
(* and its content in a field named after the kind, so values of           *)
(* different kinds differ in their fields.  An object is a sequence of     *)
(* <<key, value>> pairs in insertion order; an array carries its elements  *)
(* in items and the named properties assigned to it in p.                  *)
(***************************************************************************)
\* the value of F at v, with v evaluated once (a local `const`)
Let(v, F(_)) == CHOOSE y \in {F(x) : x \in {v}} : TRUE

Undef == [k |-> "undefined"]

Null == [k |-> "null"]

Bool(b) == [k |-> "boolean", b |-> b]

Num(n) == [k |-> "number", n |-> n]

Str(s) == [k |-> "string", s |-> s]

Arr(items) == [k |-> "array", items |-> items, p |-> <<>>]

Obj(pairs) == [k |-> "object", pairs |-> pairs]

\* typeof x
TypeOf(x) ==
  CASE x.k = "undefined" -> "undefined"
    [] x.k = "boolean" -> "boolean"
    [] x.k = "number" -> "number"
    [] x.k = "string" -> "string"
    [] OTHER -> "object"

\* Array.isArray(x)
IsArray(x) == x.k = "array"

\* !!x  (numbers are integers here, so NaN does not occur)
Truthy(x) ==
  CASE x.k = "undefined" -> FALSE
    [] x.k = "null" -> FALSE
    [] x.k = "boolean" -> x.b
    [] x.k = "number" -> x.n # 0
    [] x.k = "string" -> x.s # ""
    [] OTHER -> TRUE

\* the value can neither be read from nor written to with a property access
IsNullish(x) == x.k \in {"undefined", "null"}

\* the value is a primitive: a property assignment on it throws in a module
IsPrimitive(x) == x.k \in {"undefined", "null", "boolean", "number", "string"}

PairsHas(pairs, key) == \E i \in 1..Len(pairs) : pairs[i][1] = key

PairsGet(pairs, key) ==
  IF PairsHas(pairs, key)
  THEN pairs[CHOOSE i \in 1..Len(pairs) : pairs[i][1] = key][2]
  ELSE Undef

\* an existing key keeps its position, a new key is appended
PairsSet(pairs, key, val) ==
  IF PairsHas(pairs, key)
  THEN [i \in 1..Len(pairs) |-> IF pairs[i][1] = key THEN <<key, val>> ELSE pairs[i]]
  ELSE Append(pairs, <<key, val>>)

\* x[key] for a value x that is not null or undefined
Get(x, key) ==
  CASE x.k = "object" -> PairsGet(x.pairs, key)
    [] x.k = "array" -> IF key = "length" THEN Num(Len(x.items)) ELSE PairsGet(x.p, key)
    [] x.k = "string" -> IF key = "length" THEN Num(Len(x.s)) ELSE Undef
    [] OTHER -> Undef

\* x?.[key]
GetOpt(x, key) == IF IsNullish(x) THEN Undef ELSE Get(x, key)

\* x[key] = val for an object or an array x
SetProp(x, key, val) ==
  IF x.k = "object"
  THEN [x EXCEPT !.pairs = PairsSet(x.pairs, key, val)]
  ELSE [x EXCEPT !.p = PairsSet(x.p, key, val)]

\* key in x, for a non-array object x and a key that Object.prototype lacks
In(key, x) == PairsHas(x.pairs, key)

\* Object.entries(x) of a non-array object
Entries(x) == x.pairs

\* a faulty Spread: no copy made, the value itself is what gets the defaults
Spread_NoCopy(x) == x

\* { ...x }
Spread(x) ==
  CASE x.k = "object" -> x
    [] x.k = "array" ->
         Obj([i \in 1..Len(x.items) |-> <<ToString(i - 1), x.items[i]>>] \o x.p)
    [] x.k = "string" ->
         Obj([i \in 1..Len(x.s) |-> <<ToString(i - 1), Str(SubSeq(x.s, i, i))>>])
    [] OTHER -> Obj(<<>>)

RECURSIVE Join(_, _)
\* list.join(sep)
Join(list, sep) ==
  IF Len(list) = 0 THEN ""
  ELSE IF Len(list) = 1 THEN list[1]
  ELSE list[1] \o sep \o Join(Tail(list), sep)

\* the strings of the model that JavaScript converts to a number
NumericStrings == {"", "5", "15"}

StringToNumber(s) ==
  CASE s = "" -> 0
    [] s = "5" -> 5
    [] s = "15" -> 15

NaN == [nan |-> TRUE]

Finite(n) == [nan |-> FALSE, n |-> n]

RECURSIVE ToNumber(_)
\* the number a relational operator converts its operand to
ToNumber(x) ==
  CASE x.k = "number" -> Finite(x.n)
    [] x.k = "null" -> Finite(0)
    [] x.k = "boolean" -> Finite(IF x.b THEN 1 ELSE 0)
    [] x.k = "string" -> IF x.s \in NumericStrings THEN Finite(StringToNumber(x.s)) ELSE NaN
    [] x.k = "array" ->
         IF Len(x.items) = 0 THEN Finite(0)
         ELSE IF Len(x.items) > 1 THEN NaN
         ELSE IF IsNullish(x.items[1]) THEN Finite(0)
         ELSE IF x.items[1].k \in {"number", "string", "array"} THEN ToNumber(x.items[1])
         ELSE NaN
    [] OTHER -> NaN

\* x < n
Less(x, n) == LET c == ToNumber(x) IN ~c.nan /\ c.n < n

\* x > n
Greater(x, n) == LET c == ToNumber(x) IN ~c.nan /\ c.n > n

(***************************************************************************)
(* schemas.ts: ANALYSIS_SCHEMA.  A schema node is a record; `properties`   *)
(* is a sequence of <<key, schema>> pairs, and a node whose `type` is a    *)
(* list of kind names carries that list in `types`.                        *)
(***************************************************************************)
StringSchema == [type |-> "string"]

StringOrNullSchema == [types |-> <<"string", "null">>]

ScoreSchema == [type |-> "number", minimum |-> 0, maximum |-> 10]

\* items of tomDeVoz.manter
ManterItemSchema ==
  [type |-> "object",
   properties |-> << <<"elemento", StringSchema>>, <<"motivo", StringSchema>> >>,
   required |-> <<"elemento", "motivo">>]

\* items of tomDeVoz.mudar, experiencia.usabilidade and experiencia.visual
MudancaItemSchema ==
  [type |-> "object",
   properties |-> << <<"elemento", StringSchema>>, <<"antes", StringOrNullSchema>>,
                     <<"depois", StringSchema>>, <<"porque", StringSchema>> >>,
   required |-> <<"elemento", "depois", "porque">>]

\* items of experiencia.acessibilidade
AcessibilidadeItemSchema ==
  [type |-> "object",
   properties |-> << <<"elemento", StringSchema>>, <<"wcag", StringOrNullSchema>>,
                     <<"antes", StringOrNullSchema>>, <<"depois", StringSchema>>,
                     <<"porque", StringSchema>> >>,
   required |-> <<"elemento", "depois", "porque">>]

\* items of prioridadesTop3
PrioridadeItemSchema ==
  [type |-> "object",
   properties |-> << <<"resumo", StringSchema>>, <<"motivo", StringSchema>> >>,
   required |-> <<"resumo", "motivo">>]

AvaliacaoSchema ==
  [type |-> "object",
   properties |-> << <<"atinge", [type |-> "boolean"]>>,
                     <<"justificativa", StringSchema>>,
                     <<"sugestoes", [type |-> "array", items |-> StringSchema]>> >>,
   required |-> <<"atinge", "justificativa">>]

JobToBeDoneSchema ==
  [type |-> "object",
   properties |-> << <<"placeholderExemplo", StringSchema>>,
                     <<"avaliacao", AvaliacaoSchema>> >>,
   required |-> <<"placeholderExemplo", "avaliacao">>]

TomDeVozSchema ==
  [type |-> "object",
   properties |-> << <<"nota", ScoreSchema>>,
                     <<"manter", [type |-> "array", items |-> ManterItemSchema]>>,
                     <<"mudar", [type |-> "array", items |-> MudancaItemSchema]>> >>,
   required |-> <<"nota">>]

CtaSchema ==
  [type |-> "object",
   properties |-> << <<"principal", StringOrNullSchema>>,
                     <<"clareza", ScoreSchema>>,
                     <<"recomendacao", StringSchema>> >>,
   required |-> <<"clareza", "recomendacao">>]

ExperienciaSchema ==
  [type |-> "object",
   properties |-> << <<"nota", ScoreSchema>>,
                     <<"usabilidade", [type |-> "array", items |-> MudancaItemSchema]>>,
                     <<"visual", [type |-> "array", items |-> MudancaItemSchema]>>,
                     <<"acessibilidade", [type |-> "array", items |-> AcessibilidadeItemSchema]>>,
                     <<"cta", CtaSchema>> >>,
   required |-> <<"nota">>]

PrioridadesSchema ==
  [type |-> "array", minItems |-> 1, maxItems |-> 3, items |-> PrioridadeItemSchema]

ANALYSIS_SCHEMA ==
  [type |-> "object",
   properties |-> << <<"schemaVersion", [type |-> "string", enum |-> <<"v6">>]>>,
                     <<"pontuacaoGeral", ScoreSchema>>,
                     <<"objetivoInferido", StringSchema>>,
                     <<"jobToBeDone", JobToBeDoneSchema>>,
                     <<"tomDeVoz", TomDeVozSchema>>,
                     <<"experiencia", ExperienciaSchema>>,
                     <<"prioridadesTop3", PrioridadesSchema>> >>,
   required |-> <<"schemaVersion", "pontuacaoGeral", "jobToBeDone", "tomDeVoz",
                  "experiencia", "prioridadesTop3">>,
   additionalProperties |-> FALSE]

(***************************************************************************)
(* validation.ts: validateJsonSchema.  The error list is a sequence of     *)
(* [message, path] records in the order the code pushes them.              *)
(***************************************************************************)
VARIABLE calls  \* a function of the module called on its own: each call's arguments and result

HasField(schema, f) == f \in DOMAIN schema

ValidationError(message, path) == [message |-> message, path |-> path]

\* a faulty RequiredErrors: the loop stops at the first missing field
RequiredErrors_FirstOnly(obj, objSchema, path) ==
  IF HasField(objSchema, "required")
  THEN Let(SelectSeq(objSchema.required, LAMBDA field : ~In(field, obj)), LAMBDA missing :
         [i \in 1..(IF Len(missing) = 0 THEN 0 ELSE 1) |->
            ValidationError("Missing required field: " \o missing[i],
                            path \o "." \o missing[i])])
  ELSE <<>>

\* objSchema.required.forEach(...)
RequiredErrors(obj, objSchema, path) ==
  IF HasField(objSchema, "required")
  THEN Let(SelectSeq(objSchema.required, LAMBDA field : ~In(field, obj)), LAMBDA missing :
         [i \in 1..Len(missing) |->
            ValidationError("Missing required field: " \o missing[i],
                            path \o "." \o missing[i])])
  ELSE <<>>

\* objSchema.properties?.[key]; Undef stands for a falsy lookup
FieldSchema(objSchema, key) ==
  IF HasField(objSchema, "properties") /\ PairsHas(objSchema.properties, key)
  THEN PairsGet(objSchema.properties, key)
  ELSE Undef

\* one alternative of a union type
MatchesKind(obj, type) ==
  CASE type = "null" -> obj.k = "null"
    [] type = "string" -> TypeOf(obj) = "string"
    [] type = "number" -> TypeOf(obj) = "number"
    [] type = "boolean" -> TypeOf(obj) = "boolean"
    [] type = "array" -> IsArray(obj)
    [] type = "object" -> TypeOf(obj) = "object" /\ obj.k # "null" /\ ~IsArray(obj)
    [] OTHER -> FALSE

\* the string and number branches, which do not recurse
StringErrors(obj, objSchema, path) ==
  (IF TypeOf(obj) # "string"
   THEN <<ValidationError("Expected string at " \o path, path)>> ELSE <<>>)
  \o
  (IF HasField(objSchema, "enum") /\ ~(\E i \in 1..Len(objSchema.enum) : Str(objSchema.enum[i]) = obj)
   THEN <<ValidationError("Value must be one of: " \o Join(objSchema.enum, ", "), path)>>
   ELSE <<>>)

NumberErrors(obj, objSchema, path) ==
  (IF TypeOf(obj) # "number"
   THEN <<ValidationError("Expected number at " \o path, path)>> ELSE <<>>)
  \o
  (IF HasField(objSchema, "minimum") /\ Less(obj, objSchema.minimum)
   THEN <<ValidationError("Value must be >= " \o ToString(objSchema.minimum), path)>>
   ELSE <<>>)
  \o
  (IF HasField(objSchema, "maximum") /\ Greater(obj, objSchema.maximum)
   THEN <<ValidationError("Value must be <= " \o ToString(objSchema.maximum), path)>>
   ELSE <<>>)

\* a faulty UnionErrors: one error for every alternative the value does not match
UnionErrors_PerKind(obj, objSchema, path) ==
  Let(SelectSeq(objSchema.types, LAMBDA type : ~MatchesKind(obj, type)), LAMBDA failed :
    [i \in 1..Len(failed) |->
       ValidationError("Expected one of types: " \o Join(objSchema.types, ", "), path)])

UnionErrors(obj, objSchema, path) ==
  IF \E i \in 1..Len(objSchema.types) : MatchesKind(obj, objSchema.types[i])
  THEN <<>>
  ELSE <<ValidationError("Expected one of types: " \o Join(objSchema.types, ", "), path)>>

\* a faulty ArrayBoundErrors: one "at least" error for every element that is missing
ArrayBoundErrors_PerElement(obj, objSchema, path) ==
  IF HasField(objSchema, "minItems") /\ Len(obj.items) < objSchema.minItems
  THEN [i \in 1..(objSchema.minItems - Len(obj.items)) |->
          ValidationError("Array must have at least " \o ToString(objSchema.minItems)
                          \o " items", path)]
  ELSE <<>>

\* the minItems and maxItems checks; a bound of 0 is falsy and checks nothing
ArrayBoundErrors(obj, objSchema, path) ==
  (IF HasField(objSchema, "minItems") /\ objSchema.minItems # 0
      /\ Len(obj.items) < objSchema.minItems
   THEN <<ValidationError("Array must have at least " \o ToString(objSchema.minItems)
                          \o " items", path)>>
   ELSE <<>>)
  \o
  (IF HasField(objSchema, "maxItems") /\ objSchema.maxItems # 0
      /\ Len(obj.items) > objSchema.maxItems
   THEN <<ValidationError("Array must have at most " \o ToString(objSchema.maxItems)
                          \o " items", path)>>
   ELSE <<>>)

RECURSIVE validate(_, _, _)
RECURSIVE ValidateEntries(_, _, _, _)
RECURSIVE ValidateItems(_, _, _, _)
\* a faulty ValidateEntries: the entries are visited from the last to the first
ValidateEntries_Reversed(entries, objSchema, path, i) ==
  IF i > Len(entries) THEN <<>>
  ELSE ValidateEntries(entries, objSchema, path, i + 1)
       \o Let(FieldSchema(objSchema, entries[i][1]), LAMBDA fieldSchema :
            IF fieldSchema # Undef
            THEN validate(entries[i][2], fieldSchema, path \o "." \o entries[i][1])
            ELSE <<>>)

\* Object.entries(obj).forEach(...), from the i-th entry on
ValidateEntries(entries, objSchema, path, i) ==
  IF i > Len(entries) THEN <<>>
  ELSE Let(FieldSchema(objSchema, entries[i][1]), LAMBDA fieldSchema :
         IF fieldSchema # Undef
         THEN validate(entries[i][2], fieldSchema, path \o "." \o entries[i][1])
         ELSE <<>>)
       \o ValidateEntries(entries, objSchema, path, i + 1)

\* obj.forEach((item, index) => validate(item, objSchema.items, ...)), from index i - 1 on
ValidateItems(items, itemSchema, path, i) ==
  IF i > Len(items) THEN <<>>
  ELSE validate(items[i], itemSchema, path \o "[" \o ToString(i - 1) \o "]")
       \o ValidateItems(items, itemSchema, path, i + 1)

\* the inner function validate(obj, objSchema, path): the errors it pushes
validate(obj, objSchema, path) ==
  IF HasField(objSchema, "types") THEN UnionErrors(obj, objSchema, path)
  ELSE IF ~HasField(objSchema, "type") THEN <<>>
  ELSE CASE objSchema.type = "object" ->
              IF TypeOf(obj) # "object" \/ obj.k = "null" \/ IsArray(obj)
              THEN <<ValidationError("Expected object at " \o path, path)>>
              ELSE RequiredErrors(obj, objSchema, path)
                   \o ValidateEntries(Entries(obj), objSchema, path, 1)
         [] objSchema.type = "array" ->
              IF ~IsArray(obj)
              THEN <<ValidationError("Expected array at " \o path, path)>>
              ELSE ArrayBoundErrors(obj, objSchema, path)
                   \o (IF HasField(objSchema, "items")
                       THEN ValidateItems(obj.items, objSchema.items, path, 1)
                       ELSE <<>>)
         [] objSchema.type = "string" -> StringErrors(obj, objSchema, path)
         [] objSchema.type = "number" -> NumberErrors(obj, objSchema, path)
         [] objSchema.type = "boolean" ->
              IF TypeOf(obj) # "boolean"
              THEN <<ValidationError("Expected boolean at " \o path, path)>>
              ELSE <<>>
         [] OTHER -> <<>>

\* a faulty validateJsonSchema: `errors` is a module-level array, never emptied
validateJsonSchema_Shared(data, schema) ==
  Let((IF calls = <<>> THEN <<>> ELSE calls[Len(calls)].result.errors)
        \o validate(data, schema, "root"),
      LAMBDA errors : [valid |-> Len(errors) = 0, errors |-> errors])

\* lines 5-6 and 86-87: `errors` is a fresh array in every call
validateJsonSchema(data, schema) ==
  Let(validate(data, schema, "root"),
      LAMBDA errors : [valid |-> Len(errors) = 0, errors |-> errors])

(***************************************************************************)
(* validation.ts: normalizeV6Data.  The function either returns a          *)
(* document or throws a TypeError (a property assignment on a primitive,   *)
(* or a call of a missing `slice`); Thrown stands for the exception.       *)
(***************************************************************************)
Thrown == [thrown |-> TRUE]

Returned(doc) == [thrown |-> FALSE, value |-> doc]

DefaultAvaliacao ==
  Obj(<< <<"atinge", Bool(FALSE)>>, <<"justificativa", Str("")>>, <<"sugestoes", Arr(<<>>)>> >>)

DefaultJobToBeDone ==
  Obj(<< <<"placeholderExemplo", Str("")>>, <<"avaliacao", DefaultAvaliacao>> >>)

DefaultTomDeVoz ==
  Obj(<< <<"nota", Num(0)>>, <<"manter", Arr(<<>>)>>, <<"mudar", Arr(<<>>)>> >>)

DefaultCta ==
  Obj(<< <<"principal", Null>>, <<"clareza", Num(0)>>, <<"recomendacao", Str("")>> >>)

DefaultExperiencia ==
  Obj(<< <<"nota", Num(0)>>, <<"usabilidade", Arr(<<>>)>>, <<"visual", Arr(<<>>)>>,
         <<"acessibilidade", Arr(<<>>)>>, <<"cta", DefaultCta>> >>)

PlaceholderPrioridade ==
  Obj(<< <<"resumo", Str("Prioridade não identificada")>>,
         <<"motivo", Str("Análise incompleta ou dados insuficientes")>> >>)

\* a faulty DefaultIfFalsy: the default is never assigned
DefaultIfFalsy_Keep(target, key, def) == Returned(target)

\* if (!target[key]) target[key] = def, for a truthy target; throws on a primitive
DefaultIfFalsy(target, key, def) ==
  IF Truthy(Get(target, key)) THEN Returned(target)
  ELSE IF IsPrimitive(target) THEN Thrown
  ELSE Returned(SetProp(target, key, def))

\* apply the steps in order to the outcome r of the steps before
AndThen(r, Step(_)) == Let(r, LAMBDA x : IF x.thrown THEN x ELSE Step(x.value))

\* normalized.jobToBeDone.avaliacao for a truthy jobToBeDone (lines 116-126)
NormalizeAvaliacao(jtbd) ==
  LET avaliacao == Get(jtbd, "avaliacao")
  IN IF ~Truthy(avaliacao)
     THEN IF IsPrimitive(jtbd) THEN Thrown
          ELSE Returned(SetProp(jtbd, "avaliacao", DefaultAvaliacao))
     ELSE AndThen(DefaultIfFalsy(avaliacao, "sugestoes", Arr(<<>>)),
                  LAMBDA a : Returned(SetProp(jtbd, "avaliacao", a)))

\* lines 101-127
NormalizeJobToBeDone(normalized) ==
  LET jtbd == Get(normalized, "jobToBeDone")
  IN IF ~Truthy(jtbd)
     THEN Returned(SetProp(normalized, "jobToBeDone", DefaultJobToBeDone))
     ELSE AndThen(AndThen(DefaultIfFalsy(jtbd, "placeholderExemplo", Str("")),
                          NormalizeAvaliacao),
                  LAMBDA j : Returned(SetProp(normalized, "jobToBeDone", j)))

\* lines 129-143
NormalizeTomDeVoz(normalized) ==
  LET tom == Get(normalized, "tomDeVoz")
  IN IF ~Truthy(tom)
     THEN Returned(SetProp(normalized, "tomDeVoz", DefaultTomDeVoz))
     ELSE AndThen(AndThen(DefaultIfFalsy(tom, "manter", Arr(<<>>)),
                          LAMBDA t : DefaultIfFalsy(t, "mudar", Arr(<<>>))),
                  LAMBDA t : Returned(SetProp(normalized, "tomDeVoz", t)))

\* lines 145-175
NormalizeExperiencia(normalized) ==
  LET exp == Get(normalized, "experiencia")
  IN IF ~Truthy(exp)
     THEN Returned(SetProp(normalized, "experiencia", DefaultExperiencia))
     ELSE LET r1 == DefaultIfFalsy(exp, "usabilidade", Arr(<<>>))
              r2 == AndThen(r1, LAMBDA e : DefaultIfFalsy(e, "visual", Arr(<<>>)))
              r3 == AndThen(r2, LAMBDA e : DefaultIfFalsy(e, "acessibilidade", Arr(<<>>)))
              r4 == AndThen(r3, LAMBDA e : DefaultIfFalsy(e, "cta", DefaultCta))
          IN AndThen(r4, LAMBDA e : Returned(SetProp(normalized, "experiencia", e)))

\* a faulty Slice3: the last three entries instead of the first three
Slice3_Last(value) ==
  IF IsArray(value) THEN Arr(SubSeq(value.items, Len(value.items) - 2, Len(value.items)))
  ELSE Str(SubSeq(value.s, Len(value.s) - 2, Len(value.s)))

\* value.slice(0, 3) for an array or a string
Slice3(value) ==
  IF IsArray(value) THEN Arr(SubSeq(value.items, 1, 3)) ELSE Str(SubSeq(value.s, 1, 3))

\* a faulty NormalizePrioridades: a list of fewer than 3 entries gets one more placeholder
NormalizePrioridades_Pad(normalized) ==
  LET given == Get(normalized, "prioridadesTop3")
  IN IF ~Truthy(given)
     THEN Returned(SetProp(normalized, "prioridadesTop3", Arr(<<PlaceholderPrioridade>>)))
     ELSE IF IsArray(given) /\ Len(given.items) < 3
     THEN Returned(SetProp(normalized, "prioridadesTop3",
                           Arr(Append(given.items, PlaceholderPrioridade))))
     ELSE Returned(normalized)

\* lines 177-188
NormalizePrioridades(normalized) ==
  LET given == Get(normalized, "prioridadesTop3")
      n1 == IF ~Truthy(given) \/ Get(given, "length") = Num(0)
            THEN SetProp(normalized, "prioridadesTop3", Arr(<<PlaceholderPrioridade>>))
            ELSE normalized
      list == Get(n1, "prioridadesTop3")
  IN IF Greater(Get(list, "length"), 3)
     THEN IF list.k \in {"array", "string"}
          THEN Returned(SetProp(n1, "prioridadesTop3", Slice3(list)))
          ELSE Thrown
     ELSE Returned(n1)

\* a faulty ScoreNeedsReset: the upper end of the range is not looked at
ScoreNeedsReset_NoUpper(value) == TypeOf(value) # "number" \/ value.n < 0

\* typeof value !== 'number' || value < 0 || value > 10
ScoreNeedsReset(value) == TypeOf(value) # "number" \/ value.n < 0 \/ value.n > 10

\* a faulty NormalizePontuacaoGeral: the overall score is reset whatever it is
NormalizePontuacaoGeral_Zero(normalized) ==
  Returned(SetProp(normalized, "pontuacaoGeral", Num(0)))

\* lines 191-193
NormalizePontuacaoGeral(normalized) ==
  IF ScoreNeedsReset(Get(normalized, "pontuacaoGeral"))
  THEN Returned(SetProp(normalized, "pontuacaoGeral", Num(0)))
  ELSE Returned(normalized)

\* a faulty ResetScore: the score is never reset
ResetScore_Keep(section, key) == Returned(section)

\* if (typeof section?.[key] !== 'number' || ... < 0 || ... > 10) section[key] = 0
ResetScore(section, key) ==
  IF ScoreNeedsReset(GetOpt(section, key))
  THEN IF IsPrimitive(section) THEN Thrown ELSE Returned(SetProp(section, key, Num(0)))
  ELSE Returned(section)

\* lines 195-197
NormalizeTomDeVozNota(normalized) ==
  AndThen(ResetScore(Get(normalized, "tomDeVoz"), "nota"),
          LAMBDA t : Returned(SetProp(normalized, "tomDeVoz", t)))

\* lines 199-201
NormalizeExperienciaNota(normalized) ==
  AndThen(ResetScore(Get(normalized, "experiencia"), "nota"),
          LAMBDA e : Returned(SetProp(normalized, "experiencia", e)))

\* lines 203-205
NormalizeClareza(normalized) ==
  LET exp == Get(normalized, "experiencia")
  IN AndThen(ResetScore(GetOpt(exp, "cta"), "clareza"),
             LAMBDA cta : Returned(SetProp(normalized, "experiencia", SetProp(exp, "cta", cta))))

\* a faulty NormalizeHeader: objetivoInferido emptied whatever the document has
NormalizeHeader_Overwrite(data) ==
  SetProp(SetProp(Spread(data), "schemaVersion", Str("v6")), "objetivoInferido", Str(""))

\* lines 93-99
NormalizeHeader(data) ==
  LET versioned == SetProp(Spread(data), "schemaVersion", Str("v6"))
  IN IF Truthy(Get(versioned, "objetivoInferido")) THEN versioned
     ELSE SetProp(versioned, "objetivoInferido", Str(""))

normalizeV6Data(data) ==
  LET r1 == AndThen(Returned(NormalizeHeader(data)), NormalizeJobToBeDone)
      r2 == AndThen(r1, NormalizeTomDeVoz)
      r3 == AndThen(r2, NormalizeExperiencia)
      r4 == AndThen(r3, NormalizePrioridades)
      r5 == AndThen(r4, NormalizePontuacaoGeral)
      r6 == AndThen(r5, NormalizeTomDeVozNota)
      r7 == AndThen(r6, NormalizeExperienciaNota)
  IN AndThen(r7, NormalizeClareza)

(***************************************************************************)
(* Inputs: the documents JSON.parse can hand to the normalizer.            *)
(***************************************************************************)
MinScore == 1

MaxScore == 11

MaxPrioridades == 4

\* the score values tried: from -MinScore to MaxScore
Scores == (0 - MinScore)..MaxScore

RECURSIVE SetAt(_, _, _)
\* the document with the value at a path of keys set to val
SetAt(doc, path, val) ==
  IF Len(path) = 1 THEN SetProp(doc, path[1], val)
  ELSE SetProp(doc, path[1], SetAt(Get(doc, path[1]), Tail(path), val))

\* the object without one of its keys
Without(doc, key) == Obj(SelectSeq(doc.pairs, LAMBDA pair : pair[1] # key))

MudancaItem ==
  Obj(<< <<"elemento", Str("botao")>>, <<"antes", Null>>,
         <<"depois", Str("Enviar")>>, <<"porque", Str("clareza")>> >>)

AcessibilidadeItem ==
  Obj(<< <<"elemento", Str("imagem")>>, <<"wcag", Str("1.4.3")>>, <<"antes", Str("sem alt")>>,
         <<"depois", Str("com alt")>>, <<"porque", Str("leitores de tela")>> >>)

ManterItem == Obj(<< <<"elemento", Str("titulo")>>, <<"motivo", Str("direto")>> >>)

Prioridade(i) ==
  Obj(<< <<"resumo", Str("prioridade " \o ToString(i))>>, <<"motivo", Str("impacto")>> >>)

Prioridades(n) == Arr([i \in 1..n |-> Prioridade(i)])

\* a document with every section populated and every score in range
CompleteDoc ==
  Obj(<< <<"schemaVersion", Str("v6")>>,
         <<"pontuacaoGeral", Num(8)>>,
         <<"objetivoInferido", Str("cadastro")>>,
         <<"jobToBeDone",
           Obj(<< <<"placeholderExemplo", Str("exemplo")>>,
                  <<"avaliacao",
                    Obj(<< <<"atinge", Bool(TRUE)>>, <<"justificativa", Str("fluxo claro")>>,
                           <<"sugestoes", Arr(<<Str("destacar CTA")>>)>> >>)>> >>)>>,
         <<"tomDeVoz",
           Obj(<< <<"nota", Num(7)>>, <<"manter", Arr(<<ManterItem>>)>>,
                  <<"mudar", Arr(<<MudancaItem>>)>> >>)>>,
         <<"experiencia",
           Obj(<< <<"nota", Num(6)>>, <<"usabilidade", Arr(<<MudancaItem>>)>>,
                  <<"visual", Arr(<<MudancaItem>>)>>,
                  <<"acessibilidade", Arr(<<AcessibilidadeItem>>)>>,
                  <<"cta", Obj(<< <<"principal", Str("Criar conta")>>, <<"clareza", Num(9)>>,
                                  <<"recomendacao", Str("manter")>> >>)>> >>)>>,
         <<"prioridadesTop3", Prioridades(3)>> >>)

TopLevelKeys ==
  <<"schemaVersion", "pontuacaoGeral", "objetivoInferido", "jobToBeDone", "tomDeVoz",
    "experiencia", "prioridadesTop3">>

ScorePaths ==
  << <<"pontuacaoGeral">>, <<"tomDeVoz", "nota">>, <<"experiencia", "nota">>,
     <<"experiencia", "cta", "clareza">> >>

\* values of the wrong kind for a section
WrongKinds == <<Null, Num(5), Str("abcd"), Bool(TRUE), Arr(<<>>), Obj(<<>>)>>

\* documents that are not an object, or an empty one
RootDocs == <<Null, Obj(<<>>), Arr(<<>>), Arr(<<Num(1)>>), Num(5), Str("ab"), Bool(FALSE)>>

MissingKeyDocs == [i \in 1..Len(TopLevelKeys) |-> Without(CompleteDoc, TopLevelKeys[i])]

WrongKindDocs ==
  [n \in 1..(Len(TopLevelKeys) * Len(WrongKinds)) |->
     SetProp(CompleteDoc, TopLevelKeys[((n - 1) \div Len(WrongKinds)) + 1],
             WrongKinds[((n - 1) % Len(WrongKinds)) + 1])]

ScoreDocs ==
  [n \in 1..(Len(ScorePaths) * Cardinality(Scores)) |->
     SetAt(CompleteDoc, ScorePaths[((n - 1) \div Cardinality(Scores)) + 1],
           Num(((n - 1) % Cardinality(Scores)) - MinScore))]

PrioridadesDocs ==
  [n \in 1..(MaxPrioridades + 1) |-> SetProp(CompleteDoc, "prioridadesTop3", Prioridades(n - 1))]

\* documents with a defect below the top level
NestedDocs ==
  << SetAt(CompleteDoc, <<"prioridadesTop3">>, Arr(<<Obj(<< <<"resumo", Str("so resumo")>> >>)>>)),
     SetAt(CompleteDoc, <<"tomDeVoz", "manter">>, Arr(<<ManterItem, Obj(<< <<"motivo", Num(3)>> >>)>>)),
     SetAt(CompleteDoc, <<"tomDeVoz", "mudar">>, Arr(<<SetProp(MudancaItem, "antes", Num(3))>>)),
     SetAt(CompleteDoc, <<"experiencia", "cta", "principal">>, Bool(TRUE)),
     SetAt(CompleteDoc, <<"experiencia", "cta">>, Obj(<< <<"clareza", Num(15)>> >>)),
     SetAt(CompleteDoc, <<"experiencia", "cta">>, Num(5)),
     SetAt(CompleteDoc, <<"experiencia", "cta">>, Str("")),
     SetAt(CompleteDoc, <<"experiencia", "visual">>, Str("abcd")),
     SetAt(CompleteDoc, <<"jobToBeDone", "avaliacao">>, Obj(<< <<"justificativa", Num(1)>> >>)),
     SetAt(CompleteDoc, <<"jobToBeDone", "avaliacao">>, Str("boa")),
     SetAt(CompleteDoc, <<"jobToBeDone", "avaliacao", "sugestoes">>, Arr(<<Str("a"), Num(2), Null>>)),
     SetAt(CompleteDoc, <<"jobToBeDone", "placeholderExemplo">>, Num(0)),
     SetAt(CompleteDoc, <<"prioridadesTop3">>, Obj(<< <<"length", Num(5)>> >>)),
     SetAt(CompleteDoc, <<"prioridadesTop3">>, Obj(<< <<"length", Num(2)>> >>)),
     SetAt(CompleteDoc, <<"findings">>, Arr(<<>>)),
     SetAt(SetAt(Without(CompleteDoc, "pontuacaoGeral"), <<"objetivoInferido">>, Num(4)),
           <<"experiencia", "usabilidade">>, Arr(<<Obj(<<>>), Str("x")>>)),
     SetAt(Without(CompleteDoc, "pontuacaoGeral"), <<"prioridadesTop3">>, Arr(<<>>)),
     SetAt(SetAt(Without(Without(CompleteDoc, "pontuacaoGeral"), "prioridadesTop3"),
                 <<"objetivoInferido">>, Num(4)),
           <<"schemaVersion">>, Str("v5")) >>

Docs ==
  <<CompleteDoc>> \o RootDocs \o MissingKeyDocs \o WrongKindDocs \o ScoreDocs
  \o PrioridadesDocs \o NestedDocs

(***************************************************************************)
(* Inputs: request bodies, configuration rows and provider responses.      *)
(***************************************************************************)
\* req.json() rejects for this body
Malformed == [k |-> "malformed"]

Methods == {"OPTIONS", "GET", "POST"}

BodyFields(context, jtbd, jobToBeDone, image) ==
  Obj(SelectSeq(<< <<"context", context>>, <<"jtbd", jtbd>>,
                   <<"jobToBeDone", jobToBeDone>>, <<"image", image>> >>,
                LAMBDA pair : pair[2] # Undef))

Bodies ==
  {Malformed, Null}
  \cup {BodyFields(c, j, t, i) :
          c \in {Undef, Str(""), Str("tela de cadastro")},
          j \in {Undef, Str("criar conta")},
          t \in {Undef, Str("criar conta")},
          i \in {Undef, Str(""), Str("AAAA"), Num(7)}}

AIConfigRow ==
  Obj(<< <<"system_prompt", Str("sistema")>>,
         <<"prompt_template", Str("{{CONTEXT}} {{JTBD}} {{VOICE_PRINCIPLES}} {{RULES}}")>>,
         <<"api_parameters", Obj(<< <<"model", Str("gpt-5-mini")>> >>)>> >>)

BrandManualRow ==
  Obj(<< <<"voice_principles", Str("proximidade")>>, <<"rules", Str("minusculas")>> >>)

\* what a point read of the configuration store resolves to, or a rejection
Rejects == [k |-> "rejects"]

DbResult(data, error) == [k |-> "resolves", data |-> data, error |-> error]

DbError == Obj(<< <<"message", Str("no rows")>> >>)

DbOutcomes(row) == {Rejects, DbResult(row, Null), DbResult(Null, DbError), DbResult(Null, Null)}

\* the text of the i-th document: a string that carries the value it denotes;
\* every other string is not well-formed JSON
TextOf(i) == [k |-> "string", s |-> "json " \o ToString(i), json |-> Docs[i]]

\* JSON.parse(text)
JSONParse(text) == IF "json" \in DOMAIN text THEN Returned(text.json) ELSE Thrown

Choice(content) == Obj(<< <<"message", Obj(<< <<"content", content>> >>)>> >>)

Completion(choices) == Obj(<< <<"choices", Arr(choices)>> >>)

ProviderMessages == {"429 quota exceeded", ""}

ProviderThrows(message) == [k |-> "throws", message |-> message]

\* the provider's responses: a rejection, or a completion
ProviderOutcomes ==
  {ProviderThrows(m) : m \in ProviderMessages}
  \cup {Completion(<<>>), Completion(<<Obj(<<>>)>>), Completion(<<Choice(Null)>>),
        Completion(<<Choice(Str(""))>>), Completion(<<Choice(Str("Desculpe, nao consigo"))>>)}
  \cup {Completion(<<Choice(TextOf(i))>>) : i \in 1..Len(Docs)}

\* the bodies that arrive in an environment: any body, or a few of them (one
\* with every parameter and one without its image)
ArrivingBodies(environment) ==
  IF environment = "any" THEN Bodies
  ELSE {BodyFields(Str("tela de cadastro"), Str("criar conta"), Undef, Str("AAAA")),
        BodyFields(Str("tela de cadastro"), Str("criar conta"), Undef, Undef)}

\* what the provider answers in an environment: any outcome, or a few of them
\* (the complete document and one whose only priority lacks its motivo)
ProviderAnswers(environment) ==
  IF environment = "any" THEN ProviderOutcomes
  ELSE {Completion(<<Choice(TextOf(1))>>),
        Completion(<<Choice(TextOf(Len(Docs) - Len(NestedDocs) + 1))>>)}

(***************************************************************************)
(* State of the streaming function, per request.                           *)
(***************************************************************************)
VARIABLES
  pc,             \* the await the request's control flow is suspended at
  request,        \* the inbound request: method and body
  response,       \* what handleRequest returned
  writer,         \* the state of the stream's writer
  events,         \* the events written to the stream
  trace,          \* every write, close, awaited call and its exception, normalization and
                  \* validation, in order
  error,          \* the message of the exception being handled
  aiConfig,       \* processAnalysis: what getAIConfig resolved to
  brandManual,    \* processAnalysis: what getBrandManual resolved to
  completion,     \* the provider's completion
  normalizedData, \* processAnalysis: normalizedData
  validation,     \* processAnalysis: validation
  settled,        \* how processRequest's promise settled
  schema,         \* the module-level object ANALYSIS_SCHEMA, which every request reads
  env             \* the run's environment: "any" body and provider answer, or a "few" of them

vars ==
  <<pc, request, response, writer, events, trace, error, aiConfig, brandManual, completion,
    normalizedData, validation, settled, schema, env, calls>>

None == [k |-> "none"]

Event(type, data) == [type |-> type, data |-> data]

\* entries of the trace
Wrote(type, step, ok) == [op |-> "write", arg |-> type, detail |-> step, ok |-> ok]

Closed(ok) == [op |-> "close", arg |-> "", detail |-> "", ok |-> ok]

Called(name) == [op |-> "call", arg |-> name, detail |-> "", ok |-> TRUE]

\* the awaited call rejected with this message
Threw(name, message) == [op |-> "throw", arg |-> name, detail |-> message, ok |-> FALSE]

Ran(name) == [op |-> "run", arg |-> name, detail |-> "", ok |-> TRUE]

Timestamp == "2025-01-01T00:00:00.000Z"

WriteFailure == "The stream is not writable"

(***************************************************************************)
(* sse-utils.ts.  A stream is the writer with what was written to it;      *)
(* `threw` tells whether the call rejected.                                *)
(***************************************************************************)
Stream(r) == [writer |-> writer[r], events |-> events[r], trace |-> trace[r], threw |-> FALSE]

\* writer.write(chunk) resolves on an open writer and rejects on a closed or errored one
sendSSEMessage(s, type, data) ==
  LET ok == s.writer = "open"
      step == IF type = "progress" THEN data.step ELSE ""
  IN [writer |-> s.writer,
      events |-> IF ok THEN Append(s.events, Event(type, data)) ELSE s.events,
      trace |-> Append(s.trace, Wrote(type, step, ok)),
      threw |-> ~ok]

\* a faulty closeWriter: writer.close() without the try/catch
closeWriter_Throws(s) ==
  [writer |-> IF s.writer = "open" THEN "closed" ELSE s.writer,
   events |-> s.events,
   trace |-> Append(s.trace, Closed(s.writer = "open")),
   threw |-> s.writer # "open"]

\* writer.close() in a try/catch: closes an open writer, and swallows the rejection otherwise
closeWriter(s) ==
  [writer |-> IF s.writer = "open" THEN "closed" ELSE s.writer,
   events |-> s.events,
   trace |-> Append(s.trace, Closed(s.writer = "open")),
   threw |-> FALSE]

sendErrorResponse(s, err) ==
  LET w == sendSSEMessage(s, "error", err)
  IN IF w.threw THEN w ELSE closeWriter(w)

sendProgressUpdate(s, step, message) ==
  sendSSEMessage(s, "progress", [step |-> step, message |-> message])

sendResult(s, result) == sendSSEMessage(s, "result", result)

(***************************************************************************)
(* openai-service.ts                                                       *)
(***************************************************************************)
\* s.startsWith(prefix)
StartsWith(s, prefix) == Len(s) >= Len(prefix) /\ SubSeq(s, 1, Len(prefix)) = prefix

\* a faulty prepareImageContent: the data: prefix is not looked for
prepareImageContent_AlwaysPrefix(image, imageType) ==
  IF imageType = Str("url") THEN Returned(image)
  ELSE IF image.k # "string" THEN Thrown
  ELSE IF StartsWith(image.s, "http") THEN Returned(image)
  ELSE Returned(Str("data:image/" \o (IF Truthy(imageType) THEN imageType.s ELSE "jpeg")
                    \o ";base64," \o image.s))

\* prepareImageContent(image, imageType): the url of the image content, or a TypeError
\* when startsWith is called on an image that is not a string
prepareImageContent(image, imageType) ==
  IF imageType = Str("url") THEN Returned(image)
  ELSE IF image.k # "string" THEN Thrown
  ELSE IF StartsWith(image.s, "http") THEN Returned(image)
  ELSE IF StartsWith(image.s, "data:") THEN Returned(image)
  ELSE Returned(Str("data:image/" \o (IF Truthy(imageType) THEN imageType.s ELSE "jpeg")
                    \o ";base64," \o image.s))

\* array[i], counting from 0
At(array, i) == IF i < Len(array.items) THEN array.items[i + 1] ELSE Undef

\* extractAnalysisResult(completion): completion.choices[0]?.message?.content || ''
extractAnalysisResult(completed) ==
  LET choices == Get(completed, "choices")
  IN IF IsNullish(choices) THEN Thrown
     ELSE LET content == GetOpt(GetOpt(At(choices, 0), "message"), "content")
          IN Returned(IF Truthy(content) THEN content ELSE Str(""))

(***************************************************************************)
(* index.ts: RequestHandler and AnalysisService, one action per await.     *)
(***************************************************************************)
Requests == {1}

\* the module is loaded and no request has arrived: `requests` are the requests of
\* the run, `environment` names what they carry and what the provider answers
Loaded(requests, environment) ==
  /\ pc = [r \in requests |-> "idle"]
  /\ request = [r \in requests |-> None]
  /\ response = [r \in requests |-> None]
  /\ writer = [r \in requests |-> "none"]
  /\ events = [r \in requests |-> <<>>]
  /\ trace = [r \in requests |-> <<>>]
  /\ error = [r \in requests |-> ""]
  /\ aiConfig = [r \in requests |-> None]
  /\ brandManual = [r \in requests |-> None]
  /\ completion = [r \in requests |-> None]
  /\ normalizedData = [r \in requests |-> None]
  /\ validation = [r \in requests |-> None]
  /\ settled = [r \in requests |-> "pending"]
  /\ schema = ANALYSIS_SCHEMA
  /\ env = environment
  /\ calls = <<>>

Init == Loaded(Requests, "any")

\* a faulty Commit: one writer kept for all requests, so that a write of one
\* request lands in every stream
Commit_Shared(r, s) ==
  /\ writer' = [q \in DOMAIN writer |-> s.writer]
  /\ events' = [q \in DOMAIN events |-> s.events]
  /\ trace' = [q \in DOMAIN trace |-> s.trace]

\* the stream after the action's writes and calls
Commit(r, s) ==
  /\ writer' = [writer EXCEPT ![r] = s.writer]
  /\ events' = [events EXCEPT ![r] = s.events]
  /\ trace' = [trace EXCEPT ![r] = s.trace]

Goto(r, next) == pc' = [pc EXCEPT ![r] = next] /\ UNCHANGED error

\* an exception with this message reaches the catch block `handler`
Throw(r, message, handler) ==
  /\ pc' = [pc EXCEPT ![r] = handler]
  /\ error' = [error EXCEPT ![r] = message]

Note(s, entry) == [s EXCEPT !.trace = Append(@, entry)]

SSEResponse == [status |-> 200, contentType |-> "text/event-stream", body |-> "stream"]

CORSResponse == [status |-> 200, contentType |-> "text/plain", body |-> "ok"]

MethodNotAllowed == [status |-> 405, contentType |-> "application/json", body |-> "Método não permitido"]

\* handleRequest (lines 172-189): the response returned for a method
ResponseFor(method) ==
  IF method = "OPTIONS" THEN CORSResponse
  ELSE IF method # "POST" THEN MethodNotAllowed
  ELSE SSEResponse

\* a faulty HandleRequest: processRequest is awaited, the response of a POST
\* is not returned while it runs
HandleRequest_Awaits(r) ==
  /\ pc[r] = "idle"
  /\ \E method \in Methods, body \in ArrivingBodies(env) :
       /\ request' = [request EXCEPT ![r] = [method |-> method, body |-> body]]
       /\ IF ResponseFor(method) = SSEResponse
          THEN /\ writer' = [writer EXCEPT ![r] = "open"]
               /\ pc' = [pc EXCEPT ![r] = "inicializando"]
               /\ UNCHANGED response
          ELSE /\ pc' = [pc EXCEPT ![r] = "responded"]
               /\ response' = [response EXCEPT ![r] = ResponseFor(method)]
               /\ UNCHANGED writer
  /\ UNCHANGED <<calls, schema, env, events, trace, error, aiConfig, brandManual, completion,
                 normalizedData, validation, settled>>

\* handleRequest: a stream is created, and processRequest started, for a POST only
HandleRequest(r) ==
  /\ pc[r] = "idle"
  /\ \E method \in Methods, body \in ArrivingBodies(env) :
       /\ request' = [request EXCEPT ![r] = [method |-> method, body |-> body]]
       /\ response' = [response EXCEPT ![r] = ResponseFor(method)]
       /\ IF ResponseFor(method) = SSEResponse
          THEN /\ writer' = [writer EXCEPT ![r] = "open"]
               /\ pc' = [pc EXCEPT ![r] = "inicializando"]
          ELSE /\ pc' = [pc EXCEPT ![r] = "responded"]
               /\ UNCHANGED writer
  /\ UNCHANGED <<calls, schema, env, events, trace, error, aiConfig, brandManual, completion,
                 normalizedData, validation, settled>>

\* one progress update of processRequest or processAnalysis, and where a rejected write is caught
Progress(r, at, step, message, next, handler) ==
  /\ pc[r] = at
  /\ LET s == sendProgressUpdate(Stream(r), step, message)
     IN /\ Commit(r, s)
        /\ IF s.threw THEN Throw(r, WriteFailure, handler) ELSE Goto(r, next)
  /\ UNCHANGED <<calls, schema, env, request, response, aiConfig, brandManual, completion,
                 normalizedData, validation, settled>>

\* line 193
Inicializando(r) ==
  Progress(r, "inicializando", "inicializando", "Iniciando análise...", "json", "requestCatch")

\* a faulty MissingParameters: the field read as jobToBeDone
MissingParameters_JobToBeDone(body) ==
  \/ ~Truthy(Get(body, "context"))
  \/ ~Truthy(Get(body, "jobToBeDone"))
  \/ ~Truthy(Get(body, "image"))

\* line 207: !requestBody.context || !requestBody.jtbd || !requestBody.image
MissingParameters(body) ==
  ~Truthy(Get(body, "context")) \/ ~Truthy(Get(body, "jtbd")) \/ ~Truthy(Get(body, "image"))

\* lines 206-216: where control goes once req.json() has settled
AfterJson(body) ==
  IF body = Malformed \/ IsNullish(body) THEN "requestCatch"
  ELSE IF MissingParameters(body) THEN "missing"
  ELSE "configuracao"

\* lines 206-213: await req.json() and the check of the body
Json(r) ==
  /\ pc[r] = "json"
  /\ LET body == request[r].body
         called == Note(Stream(r), Called("json"))
     IN IF body = Malformed
        THEN /\ Commit(r, Note(called, Threw("json", "Unexpected end of JSON input")))
             /\ Throw(r, "Unexpected end of JSON input", "requestCatch")
        ELSE /\ Commit(r, called)
             /\ IF AfterJson(body) = "requestCatch"
                THEN Throw(r, "Cannot read properties of null", "requestCatch")
                ELSE Goto(r, AfterJson(body))
  /\ UNCHANGED <<calls, schema, env, request, response, aiConfig, brandManual, completion,
                 normalizedData, validation, settled>>

MissingParametersError ==
  [error |-> "Parâmetros obrigatórios ausentes",
   message |-> "Os campos 'context', 'jtbd' e 'image' são obrigatórios"]

\* an awaited sendErrorResponse, then `next`; a rejected write is caught by `handler`
SendError(r, at, err, next, handler) ==
  /\ pc[r] = at
  /\ LET s == sendErrorResponse(Stream(r), err)
     IN /\ Commit(r, s)
        /\ IF s.threw THEN Throw(r, WriteFailure, handler) ELSE Goto(r, next)
  /\ UNCHANGED <<calls, schema, env, request, response, aiConfig, brandManual, completion,
                 normalizedData, validation, settled>>

\* a faulty Missing: the `return` of line 212 forgotten
Missing_NoReturn(r) ==
  SendError(r, "missing", MissingParametersError, "configuracao", "requestCatch")

\* lines 208-212
Missing(r) == SendError(r, "missing", MissingParametersError, "finally", "requestCatch")

\* line 63
Configuracao(r) ==
  Progress(r, "configuracao", "configuracao", "Carregando configurações...", "getAIConfig",
           "analysisCatch")

\* a faulty RowMissing: only the error is looked at
RowMissing_ErrorOnly(result) == Truthy(result.error)

\* lines 66 and 74: error || !data
RowMissing(result) == Truthy(result.error) \/ ~Truthy(result.data)

\* one point read of the configuration store and the check of its result
Fetch(r, at, name, result, notFound, next) ==
  /\ pc[r] = at
  /\ IF result = Rejects
     THEN /\ Commit(r, Note(Note(Stream(r), Called(name)), Threw(name, "fetch failed")))
          /\ Throw(r, "fetch failed", "analysisCatch")
     ELSE /\ Commit(r, Note(Stream(r), Called(name)))
          /\ IF RowMissing(result) THEN Throw(r, notFound, "analysisCatch") ELSE Goto(r, next)
  /\ UNCHANGED <<calls, schema, env, request, response, completion, normalizedData, validation,
                 settled>>

\* what the destructuring of an awaited read binds
Bound(result) == IF result = Rejects THEN None ELSE result

\* lines 64-68
GetAIConfig(r) ==
  \E result \in DbOutcomes(AIConfigRow) :
    /\ Fetch(r, "getAIConfig", "getAIConfig", result, "Configurações da IA não encontradas",
             "manual")
    /\ aiConfig' = [aiConfig EXCEPT ![r] = Bound(result)]
    /\ UNCHANGED brandManual

\* a faulty Manual: the update names the next step
Manual_WrongStep(r) ==
  Progress(r, "manual", "prompt", "Carregando manual da marca...", "getBrandManual",
           "analysisCatch")

\* line 71
Manual(r) ==
  Progress(r, "manual", "manual", "Carregando manual da marca...", "getBrandManual",
           "analysisCatch")

\* lines 72-76
GetBrandManual(r) ==
  \E result \in DbOutcomes(BrandManualRow) :
    /\ Fetch(r, "getBrandManual", "getBrandManual", result, "Manual da marca não encontrado",
             "prompt")
    /\ brandManual' = [brandManual EXCEPT ![r] = Bound(result)]
    /\ UNCHANGED aiConfig

\* lines 79-81: the progress update, then the image content is prepared
Prompt(r) ==
  /\ pc[r] = "prompt"
  /\ LET s == sendProgressUpdate(Stream(r), "prompt", "Preparando análise...")
         body == request[r].body
     IN /\ Commit(r, s)
        /\ IF s.threw THEN Throw(r, WriteFailure, "analysisCatch")
           ELSE IF prepareImageContent(Get(body, "image"), Get(body, "imageType")).thrown
           THEN Throw(r, "requestBody.image.startsWith is not a function", "analysisCatch")
           ELSE Goto(r, "api")
  /\ UNCHANGED <<calls, schema, env, request, response, aiConfig, brandManual, completion,
                 normalizedData, validation, settled>>

\* line 87
Api(r) ==
  Progress(r, "api", "api", "Analisando com IA...", "createCompletion", "analysisCatch")

\* line 96
CreateCompletion(r) ==
  /\ pc[r] = "createCompletion"
  /\ \E outcome \in ProviderAnswers(env) :
       LET called == Note(Stream(r), Called("createCompletion"))
       IN IF outcome.k = "throws"
          THEN /\ Commit(r, Note(called, Threw("createCompletion", outcome.message)))
               /\ Throw(r, outcome.message, "analysisCatch")
               /\ UNCHANGED completion
          ELSE /\ Commit(r, called)
               /\ Goto(r, "processando")
               /\ completion' = [completion EXCEPT ![r] = outcome]
  /\ UNCHANGED <<calls, schema, env, request, response, aiConfig, brandManual, normalizedData,
                 validation, settled>>

\* a faulty AfterValidation: validation.valid ignored
AfterValidation_AlwaysResult(result) == "result"

\* line 112: where control goes once the normalized document is validated
AfterValidation(result) == IF ~result.valid THEN "schemaViolation" ELSE "result"

\* a faulty Failed: the exception is lost and an empty document goes on as the result
Failed_AsResult(message, ran) ==
  [next |-> "result", message |-> message, normalized |-> Obj(<<>>), validation |-> None,
   ran |-> ran]

\* an exception thrown by the code that follows the 'processando' update
Failed(message, ran) ==
  [next |-> "analysisCatch", message |-> message, normalized |-> None, validation |-> None,
   ran |-> ran]

\* lines 100-122: extraction, parsing, normalization and validation of the completion
Analyse(completed) ==
  Let(extractAnalysisResult(completed), LAMBDA text :
    IF text.thrown THEN Failed("Cannot read properties of undefined", <<>>)
    ELSE IF ~Truthy(text.value) THEN Failed("Resposta vazia da IA", <<>>)
    ELSE Let(JSONParse(text.value), LAMBDA parsedResult :
      IF parsedResult.thrown THEN Failed("Unexpected token in JSON", <<>>)
      ELSE Let(normalizeV6Data(parsedResult.value), LAMBDA normalized :
        IF normalized.thrown
        THEN Failed("Cannot create property", <<Ran("normalizeV6Data")>>)
        ELSE Let(validateJsonSchema(normalized.value, schema), LAMBDA result :
          [next |-> AfterValidation(result), message |-> "",
           normalized |-> normalized.value, validation |-> result,
           ran |-> <<Ran("normalizeV6Data"), Ran("validateJsonSchema")>>]))))

\* a faulty Processando: the validator takes each required key off the
\* schema's list as it finds it
Processando_ConsumesRequired(r) ==
  /\ pc[r] = "processando"
  /\ \E s \in {sendProgressUpdate(Stream(r), "processando", "Processando resultado...")},
        a \in {Analyse(completion[r])} :
        IF s.threw
        THEN /\ Commit(r, s)
             /\ Throw(r, WriteFailure, "analysisCatch")
             /\ UNCHANGED <<normalizedData, validation, schema>>
        ELSE /\ Commit(r, [s EXCEPT !.trace = @ \o a.ran])
             /\ normalizedData' = [normalizedData EXCEPT ![r] = a.normalized]
             /\ validation' = [validation EXCEPT ![r] = a.validation]
             /\ schema' = IF a.validation = None THEN schema
                          ELSE [schema EXCEPT !.required =
                                  SelectSeq(@, LAMBDA f : ~In(f, a.normalized))]
             /\ IF a.next = "analysisCatch" THEN Throw(r, a.message, "analysisCatch")
                ELSE Goto(r, a.next)
  /\ UNCHANGED <<calls, env, request, response, aiConfig, brandManual, completion, settled>>

\* lines 99-122
Processando(r) ==
  /\ pc[r] = "processando"
  /\ \E s \in {sendProgressUpdate(Stream(r), "processando", "Processando resultado...")},
        a \in {Analyse(completion[r])} :
        IF s.threw
        THEN /\ Commit(r, s)
             /\ Throw(r, WriteFailure, "analysisCatch")
             /\ UNCHANGED <<normalizedData, validation>>
        ELSE /\ Commit(r, [s EXCEPT !.trace = @ \o a.ran])
             /\ normalizedData' = [normalizedData EXCEPT ![r] = a.normalized]
             /\ validation' = [validation EXCEPT ![r] = a.validation]
             /\ IF a.next = "analysisCatch" THEN Throw(r, a.message, "analysisCatch")
                ELSE Goto(r, a.next)
  /\ UNCHANGED <<calls, schema, env, request, response, aiConfig, brandManual, completion,
                 settled>>

\* a faulty SchemaViolationError: only the first violation reported
SchemaViolationError_FirstOnly(result) ==
  [error |-> "Erro de validação do schema", code |-> "LLM_SCHEMA_VIOLATION",
   details |-> [errors |-> SubSeq(result.errors, 1, 1)], schema_version |-> "v6"]

\* lines 113-118: the payload of the schema-violation error
SchemaViolationError(result) ==
  [error |-> "Erro de validação do schema", code |-> "LLM_SCHEMA_VIOLATION",
   details |-> [errors |-> result.errors], schema_version |-> "v6"]

\* lines 113-119
SchemaViolation(r) ==
  SendError(r, "schemaViolation", SchemaViolationError(validation[r]), "finally",
            "analysisCatch")

\* line 135
Result(r) ==
  /\ pc[r] = "result"
  /\ LET s == sendResult(Stream(r), normalizedData[r])
     IN /\ Commit(r, s)
        /\ IF s.threw THEN Throw(r, WriteFailure, "analysisCatch") ELSE Goto(r, "finally")
  /\ UNCHANGED <<calls, schema, env, request, response, aiConfig, brandManual, completion,
                 normalizedData, validation, settled>>

\* a faulty AnalysisError: the message of the exception replaced by a fixed text
AnalysisError_Generic(message) ==
  [error |-> "Erro na análise", message |-> "Erro desconhecido", timestamp |-> Timestamp]

\* lines 139-143
AnalysisError(message) ==
  [error |-> "Erro na análise", message |-> message, timestamp |-> Timestamp]

\* a faulty AnalysisCatch: the exception swallowed, no error event sent
AnalysisCatch_Silent(r) ==
  /\ pc[r] = "analysisCatch"
  /\ Goto(r, "finally")
  /\ UNCHANGED <<calls, schema, env, request, response, writer, events, trace, aiConfig,
                 brandManual, completion, normalizedData, validation, settled>>

\* lines 137-144: the catch block of processAnalysis
AnalysisCatch(r) ==
  SendError(r, "analysisCatch", AnalysisError(error[r]), "finally", "requestCatch")

\* lines 220-224
InternalError(message) ==
  [error |-> "Erro interno do servidor",
   message |-> IF message = "" THEN "Erro desconhecido" ELSE message,
   timestamp |-> Timestamp]

\* lines 218-225: the catch block of processRequest; an exception thrown in it
\* leaves through the finally block
RequestCatch(r) ==
  SendError(r, "requestCatch", InternalError(error[r]), "finally", "finallyRethrow")

\* a faulty Finally: the finally block without its closeWriter
Finally_NoClose(r) ==
  /\ pc[r] \in {"finally", "finallyRethrow"}
  /\ settled' = [settled EXCEPT ![r] = IF pc[r] = "finally" THEN "resolved" ELSE "rejected"]
  /\ Goto(r, "done")
  /\ UNCHANGED <<calls, schema, env, request, response, writer, events, trace, aiConfig,
                 brandManual, completion, normalizedData, validation>>

\* lines 225-227: the finally block, after which the promise settles
Finally(r) ==
  /\ pc[r] \in {"finally", "finallyRethrow"}
  /\ Commit(r, closeWriter(Stream(r)))
  /\ settled' = [settled EXCEPT ![r] = IF pc[r] = "finally" THEN "resolved" ELSE "rejected"]
  /\ Goto(r, "done")
  /\ UNCHANGED <<calls, schema, env, request, response, aiConfig, brandManual, completion,
                 normalizedData, validation>>

\* the consumer of the response disconnects: the writer is errored from then on
ConsumerDisconnect(r) ==
  /\ writer[r] = "open"
  /\ writer' = [writer EXCEPT ![r] = "errored"]
  /\ UNCHANGED <<calls, schema, env, pc, request, response, events, trace, error, aiConfig,
                 brandManual, completion, normalizedData, validation, settled>>

\* the steps of processRequest and processAnalysis
Handler(r) ==
  \/ Inicializando(r)
  \/ Json(r)
  \/ Missing(r)
  \/ Configuracao(r)
  \/ GetAIConfig(r)
  \/ Manual(r)
  \/ GetBrandManual(r)
  \/ Prompt(r)
  \/ Api(r)
  \/ CreateCompletion(r)
  \/ Processando(r)
  \/ SchemaViolation(r)
  \/ Result(r)
  \/ AnalysisCatch(r)
  \/ RequestCatch(r)
  \/ Finally(r)

Next == \E r \in Requests : HandleRequest(r) \/ Handler(r) \/ ConsumerDisconnect(r)

Spec == Init /\ [][Next]_vars

(***************************************************************************)
(* validateJsonSchema called on its own, as any caller of the module can:  *)
(* the documents against ANALYSIS_SCHEMA, a section against its schema,    *)
(* arrays against array schemas with bounds and values of every kind       *)
(* against the union of string and null.                                   *)
(***************************************************************************)
MaxItems == 2

MaxLen == 3

MaxCalls == 3

\* an array schema with both bounds
ArraySchema(min, max) ==
  [type |-> "array", minItems |-> min, maxItems |-> max, items |-> StringSchema]

\* an array of n elements: strings, but for the last element
Items(n, last) == Arr([i \in 1..n |-> IF i = n THEN last ELSE Str("item")])

\* the arguments tried: every document against ANALYSIS_SCHEMA, the section
\* experiencia of every document against its schema, arrays against array
\* schemas, values of every kind against the union of string and null
ValidatorInputs ==
  {[data |-> Docs[i], schema |-> ANALYSIS_SCHEMA] : i \in 1..Len(Docs)}
  \cup {[data |-> Get(Docs[i], "experiencia"), schema |-> ExperienciaSchema] :
          i \in {j \in 1..Len(Docs) : Docs[j].k = "object" /\ In("experiencia", Docs[j])}}
  \cup {[data |-> Items(n, last), schema |-> ArraySchema(min, max)] :
          n \in 0..MaxLen, last \in {Str("item"), Num(7)},
          min \in 0..MaxItems, max \in 0..MaxItems}
  \cup {[data |-> Obj(<<>>), schema |-> ArraySchema(1, 1)],
        [data |-> Null, schema |-> ArraySchema(1, 1)]}
  \cup {[data |-> WrongKinds[i], schema |-> StringOrNullSchema] : i \in 1..Len(WrongKinds)}
  \cup {[data |-> Str(""), schema |-> StringOrNullSchema],
        [data |-> Arr(<<Str("a")>>), schema |-> StringOrNullSchema]}

\* the validations made between two calls on the same arguments
Between ==
  {[data |-> Docs[3], schema |-> ANALYSIS_SCHEMA],
   [data |-> Items(0, Null), schema |-> ArraySchema(1, 1)],
   [data |-> Num(5), schema |-> StringOrNullSchema]}

\* one call of validateJsonSchema(data, schema): any arguments first, then the
\* first arguments again or one of the validations in between
Validate ==
  /\ Len(calls) < MaxCalls
  /\ \E input \in (IF calls = <<>> THEN ValidatorInputs
                   ELSE Between \cup {[data |-> calls[1].data, schema |-> calls[1].schema]}) :
       \E result \in {validateJsonSchema(input.data, input.schema)} :
         calls' = Append(calls, [data |-> input.data, schema |-> input.schema,
                                 result |-> result])
  /\ UNCHANGED <<pc, request, response, writer, events, trace, error, aiConfig, brandManual,
                 completion, normalizedData, validation, settled, schema, env>>

ValidatorSpec == Init /\ [][Validate]_vars

\* two requests in flight at once, their steps interleaved at every await
ConcurrentRequests == {1, 2}

ConcurrentNext ==
  \E r \in ConcurrentRequests : HandleRequest(r) \/ Handler(r) \/ ConsumerDisconnect(r)

ConcurrentSpec == Loaded(ConcurrentRequests, "few") /\ [][ConcurrentNext]_vars

(***************************************************************************)
(* index.ts: buildPrompt.  A text is the sequence of its pieces: a         *)
(* placeholder token, a replacement pattern or a word of plain text, with  *)
(* none of the characters {, } and $.  The patterns are $$, $&, $' and the *)
(* dollar sign followed by a grave accent, written "$^" here.              *)
(***************************************************************************)
MaxPieces == 3

\* the tokens buildPrompt substitutes, in the order of its replace calls
Tokens == <<"{{CONTEXT}}", "{{JTBD}}", "{{VOICE_PRINCIPLES}}", "{{RULES}}">>

\* str.indexOf(searchString): the place of its first occurrence, 0 when there is none
IndexOf(text, token) ==
  IF \E i \in DOMAIN text : text[i] = token
  THEN CHOOSE i \in DOMAIN text : text[i] = token /\ \A j \in 1..(i - 1) : text[j] # token
  ELSE 0

\* GetSubstitution: the replacement text with its patterns expanded
RECURSIVE GetSubstitution(_, _, _, _)
GetSubstitution(matched, before, after, replacement) ==
  IF replacement = <<>> THEN <<>>
  ELSE (CASE Head(replacement) = "$$" -> <<"$">>
          [] Head(replacement) = "$&" -> <<matched>>
          [] Head(replacement) = "$^" -> before
          [] Head(replacement) = "$'" -> after
          [] OTHER -> <<Head(replacement)>>)
       \o GetSubstitution(matched, before, after, Tail(replacement))

\* a faulty Replace: every occurrence replaced
RECURSIVE Replace_All(_, _, _)
Replace_All(text, token, value) ==
  IF text = <<>> THEN <<>>
  ELSE (IF Head(text) = token THEN value ELSE <<Head(text)>>) \o Replace_All(Tail(text), token, value)

\* String.prototype.replace(searchString, replaceValue) with two strings: the
\* first occurrence only, the replacement's patterns expanded
Replace(text, token, value) ==
  Let(IndexOf(text, token), LAMBDA i :
    IF i = 0 THEN text
    ELSE SubSeq(text, 1, i - 1)
         \o GetSubstitution(token, SubSeq(text, 1, i - 1), SubSeq(text, i + 1, Len(text)), value)
         \o SubSeq(text, i + 1, Len(text)))

\* lines 147-153
buildPrompt(config, manual, requestBody) ==
  Replace(Replace(Replace(Replace(config.prompt_template,
                                  Tokens[1], requestBody.context),
                          Tokens[2], requestBody.jtbd),
                  Tokens[3], manual.voice_principles),
          Tokens[4], manual.rules)

\* the pieces of a template: the four tokens, another token and a word
TemplatePieces == {Tokens[i] : i \in DOMAIN Tokens} \cup {"{{IMAGE}}", "Analise"}

\* the texts of at most n pieces
TextsUpTo(n, pieces) == UNION {[1..m -> pieces] : m \in 0..n}

\* the arguments tried: every template of at most MaxPieces pieces, with values
\* that are plain, that hold a token or that hold a replacement pattern
PromptInputs ==
  {[config |-> [prompt_template |-> t],
    manual |-> [voice_principles |-> <<"proximidade">>, rules |-> r],
    requestBody |-> [context |-> c, jtbd |-> j]] :
     t \in TextsUpTo(MaxPieces, TemplatePieces),
     c \in {<<"tela", "de", "cadastro">>, <<"{{JTBD}}">>, <<"ver", "{{RULES}}">>, <<"$&">>, <<"R$$">>},
     j \in {<<"criar", "conta">>, <<"{{CONTEXT}}">>, <<"$'">>},
     r \in {<<"minusculas">>, <<"$^">>}}

\* one call of buildPrompt
BuildPrompt ==
  /\ calls = <<>>
  /\ \E input \in PromptInputs :
       \E result \in {buildPrompt(input.config, input.manual, input.requestBody)} :
         calls' = <<[config |-> input.config, manual |-> input.manual,
                     requestBody |-> input.requestBody, prompt |-> result]>>
  /\ UNCHANGED <<pc, request, response, writer, events, trace, error, aiConfig, brandManual,
                 completion, normalizedData, validation, settled, schema, env>>

PromptSpec == Init /\ [][BuildPrompt]_vars

(***************************************************************************)
(* openai-service.ts: prepareImageContent called on its own, and again on  *)
(* the url it returned.                                                    *)
(***************************************************************************)
\* the arguments tried: links, data URIs, bare base64 text and text that only
\* resembles a link, with every way of giving or omitting the image type
ImageInputs ==
  {[image |-> Str(prefix \o payload), imageType |-> type] :
     prefix \in {"", "http://", "https://", "HTTP://", "htt", "ftp://", "data:",
                 "data:image/png;base64,", "Data:", " http"},
     payload \in {"", "AAAA", "iVBORw0KGgo=", "figma.com/a.png", "http", "data:"},
     type \in {Undef, Null, Str(""), Str("url"), Str("URL"), Str("png"), Str("jpeg")}}
  \cup {[image |-> Num(7), imageType |-> type] : type \in {Undef, Str("url"), Str("png")}}

\* one call of prepareImageContent(image, imageType): any arguments first, then
\* the url it returned with the same image type
PrepareImageContent ==
  /\ Len(calls) < 2
  /\ calls # <<>> => ~calls[1].result.thrown
  /\ \E input \in (IF calls = <<>> THEN ImageInputs
                   ELSE {[image |-> calls[1].result.value, imageType |-> calls[1].imageType]}) :
       \E result \in {prepareImageContent(input.image, input.imageType)} :
         calls' = Append(calls, [image |-> input.image, imageType |-> input.imageType,
                                 result |-> result])
  /\ UNCHANGED <<pc, request, response, writer, events, trace, error, aiConfig, brandManual,
                 completion, normalizedData, validation, settled, schema, env>>

ImageSpec == Init /\ [][PrepareImageContent]_vars

(***************************************************************************)
(* The non-streaming handlers: hello-world/index.ts and its GPT-5 variant. *)
(* One request is answered by one JSON response; `env` names the handler   *)
(* that is deployed, and there is one action per await.                    *)
(***************************************************************************)
LegacyVariants == {"hello-world", "gpt-5"}

\* new Response(JSON.stringify(body), { status })
LegacyResponse(status, body) == [status |-> status, body |-> body]

\* the handler returns this response
LegacyReturn(r, status, body) ==
  /\ response' = [response EXCEPT ![r] = LegacyResponse(status, body)]
  /\ pc' = [pc EXCEPT ![r] = "responded"]

\* the catch block of the whole handler
LegacyCatch(r, message) ==
  /\ LegacyReturn(r, 500, [error |-> "Erro interno do servidor", message |-> message])
  /\ error' = [error EXCEPT ![r] = message]

\* a faulty LegacyData: a text that does not parse is an exception
LegacyData_Strict(text) == JSONParse(text)

\* the try/catch around JSON.parse(analysisResult)
LegacyData(text) ==
  IF JSONParse(text).thrown THEN Returned(Obj(<< <<"analysis", text>> >>))
  ELSE JSONParse(text)

\* the request arrives: OPTIONS and the other methods are answered at once, a
\* POST goes on to read its body
LegacyServe(r) ==
  /\ pc[r] = "idle"
  /\ \E method \in Methods, body \in ArrivingBodies("any") :
       /\ request' = [request EXCEPT ![r] = [method |-> method, body |-> body]]
       /\ IF method = "OPTIONS" THEN LegacyReturn(r, 200, [text |-> "ok"])
          ELSE IF method # "POST"
          THEN LegacyReturn(r, 405, [error |-> "Método não permitido",
                                     message |-> "Esta API aceita apenas requisições POST"])
          ELSE pc' = [pc EXCEPT ![r] = "json"] /\ UNCHANGED response
  /\ UNCHANGED <<calls, schema, env, writer, events, trace, error, aiConfig, brandManual,
                 completion, normalizedData, validation, settled>>

\* await req.json() and the check of the body
LegacyJson(r) ==
  /\ pc[r] = "json"
  /\ LET body == request[r].body
     IN IF body = Malformed THEN LegacyCatch(r, "Unexpected end of JSON input")
        ELSE IF IsNullish(body) THEN LegacyCatch(r, "Cannot read properties of null")
        ELSE IF ~Truthy(Get(body, "context")) \/ ~Truthy(Get(body, "image"))
        THEN /\ LegacyReturn(r, 400, [error |-> "Parâmetros obrigatórios ausentes",
                                      message |-> "Os campos 'context' e 'image' são obrigatórios"])
             /\ UNCHANGED error
        ELSE pc' = [pc EXCEPT ![r] = "getAIConfig"] /\ UNCHANGED <<response, error>>
  /\ UNCHANGED <<calls, schema, env, request, writer, events, trace, aiConfig, brandManual,
                 completion, normalizedData, validation, settled>>

\* the read of ai_configs and the check of its error
LegacyGetAIConfig(r) ==
  /\ pc[r] = "getAIConfig"
  /\ \E result \in DbOutcomes(AIConfigRow) :
       /\ aiConfig' = [aiConfig EXCEPT ![r] = result]
       /\ IF result = Rejects THEN LegacyCatch(r, "fetch failed")
          ELSE IF Truthy(result.error)
          THEN /\ LegacyReturn(r, 500, [error |-> "Erro ao acessar configuração da IA",
                    message |-> "Não foi possível obter as configurações do modelo de IA"])
               /\ UNCHANGED error
          ELSE pc' = [pc EXCEPT ![r] = "getBrandManual"] /\ UNCHANGED <<response, error>>
  /\ UNCHANGED <<calls, schema, env, request, writer, events, trace, brandManual, completion,
                 normalizedData, validation, settled>>

\* the read of brand_manuals and the check of its error, then the prompt and
\* the image content are prepared
LegacyGetBrandManual(r) ==
  /\ pc[r] = "getBrandManual"
  /\ \E result \in DbOutcomes(BrandManualRow) :
       /\ brandManual' = [brandManual EXCEPT ![r] = result]
       /\ IF result = Rejects THEN LegacyCatch(r, "fetch failed")
          ELSE IF Truthy(result.error)
          THEN /\ LegacyReturn(r, 500, [error |-> "Erro ao acessar manual da marca",
                    message |-> "Não foi possível obter os dados do manual da marca"])
               /\ UNCHANGED error
          ELSE IF IsNullish(aiConfig[r].data) \/ IsNullish(result.data)
          THEN LegacyCatch(r, "Cannot read properties of null")
          ELSE IF Get(request[r].body, "image").k # "string"
          THEN LegacyCatch(r, "requestBody.image.startsWith is not a function")
          ELSE pc' = [pc EXCEPT ![r] = "createCompletion"] /\ UNCHANGED <<response, error>>
  /\ UNCHANGED <<calls, schema, env, request, writer, events, trace, aiConfig, completion,
                 normalizedData, validation, settled>>

\* the call of the provider, and what is made of its answer
LegacyCreateCompletion(r) ==
  /\ pc[r] = "createCompletion"
  /\ \E outcome \in ProviderAnswers("any") :
       /\ completion' = [completion EXCEPT ![r] = outcome]
       /\ IF outcome.k = "throws"
          THEN IF env = "gpt-5"
               THEN /\ LegacyReturn(r, 500,
                         [error |-> "A chamada para a OpenAI falhou",
                          details |-> IF outcome.message = "" THEN "Erro desconhecido da OpenAI"
                                      ELSE outcome.message])
                    /\ UNCHANGED error
               ELSE LegacyCatch(r, outcome.message)
          ELSE \E analysisResult \in {extractAnalysisResult(outcome)} :
                 IF analysisResult.thrown
                 THEN LegacyCatch(r, "Cannot read properties of undefined")
                 ELSE IF ~Truthy(analysisResult.value)
                 THEN /\ LegacyReturn(r, 500, [error |-> "Erro na análise da IA",
                           message |-> "A OpenAI não retornou uma resposta válida"])
                      /\ UNCHANGED error
                 ELSE IF LegacyData(analysisResult.value).thrown
                 THEN LegacyCatch(r, "Unexpected token in JSON")
                 ELSE /\ LegacyReturn(r, 200, [success |-> TRUE,
                                               data |-> LegacyData(analysisResult.value).value])
                      /\ UNCHANGED error
  /\ UNCHANGED <<calls, schema, env, request, writer, events, trace, aiConfig, brandManual,
                 normalizedData, validation, settled>>

LegacyNext ==
  \E r \in Requests :
    \/ LegacyServe(r)
    \/ LegacyJson(r)
    \/ LegacyGetAIConfig(r)
    \/ LegacyGetBrandManual(r)
    \/ LegacyCreateCompletion(r)

\* the request arrives, every awaited call settles and the event loop runs the
\* continuation
LegacySpec ==
  /\ \E variant \in LegacyVariants : Loaded(Requests, variant)
  /\ [][LegacyNext]_vars
  /\ WF_vars(LegacyNext)

\* every awaited call settles and the event loop runs the continuation
FairSpec == Spec /\ \A r \in Requests : WF_vars(Handler(r))

(***************************************************************************)
(* What a request's stream and trace show.                                 *)
(***************************************************************************)
\* the number of events of a type written to the stream
Count(r, type) == Cardinality({i \in 1..Len(events[r]) : events[r][i].type = type})

\* no write to the stream was rejected
NoFailedWrite(r) == \A i \in 1..Len(trace[r]) : trace[r][i].op = "write" => trace[r][i].ok

\* a terminal event is the last event of the stream
TerminalOnlyLast(r) ==
  \A i \in 1..(Len(events[r]) - 1) : events[r][i].type = "progress"

\* progress events, then one terminal event, then closeWriter, which leaves the
\* writer closed unless the consumer went away between the last write and the close
ProgressThenOneTerminal(r) ==
  /\ Len(events[r]) >= 1
  /\ TerminalOnlyLast(r)
  /\ events[r][Len(events[r])].type \in {"result", "error"}
  /\ \E i \in 2..Len(trace[r]) :
       /\ trace[r][i].op = "close"
       /\ trace[r][i - 1].op = "write" /\ trace[r][i - 1].arg \in {"result", "error"}
  /\ writer[r] \in {"closed", "errored"}
  /\ writer[r] = "errored" => Closed(FALSE) = trace[r][Len(trace[r])]

\* the document the provider's text denotes; None when there is no such document
ParsedOf(completed) ==
  IF completed = None THEN None
  ELSE Let(extractAnalysisResult(completed), LAMBDA text :
         IF text.thrown THEN None
         ELSE IF JSONParse(text.value).thrown THEN None
         ELSE JSONParse(text.value).value)

\* the data of a schema-violation error that carries these violations
IsSchemaViolation(data, errors) ==
  /\ "code" \in DOMAIN data
  /\ data.code = "LLM_SCHEMA_VIOLATION"
  /\ data.schema_version = "v6"
  /\ data.details.errors = errors

(***************************************************************************)
(* The claims.                                                             *)
(***************************************************************************)
\* C1: for a POST request, when no write is rejected and every awaited call
\* settles, processing ends, and the stream then holds zero or more progress
\* events followed by exactly one terminal event (result or error), after
\* which closeWriter is called and the writer is closed (a consumer that left
\* after the last write makes that close fail); before that, a terminal event
\* is never followed by another event.
C1_ProgressThenOneTerminal ==
  /\ [](\A r \in Requests : NoFailedWrite(r) => TerminalOnlyLast(r))
  /\ \A r \in Requests :
       (pc[r] = "inicializando")
         ~> (pc[r] = "done" /\ (NoFailedWrite(r) => ProgressThenOneTerminal(r)))

C1_Witness ==
  \E r \in Requests :
    /\ pc[r] = "done" /\ NoFailedWrite(r) /\ writer[r] = "closed"
    /\ Count(r, "progress") = 6 /\ Count(r, "result") = 1 /\ Count(r, "error") = 0

\* C2: on every path, no write is attempted on a writer after closeWriter
\* was called on it.
C2_NoWriteAfterClose ==
  \A r \in Requests : \A i, j \in 1..Len(trace[r]) :
    (i < j /\ trace[r][i].op = "close") => trace[r][j].op # "write"

C2_Witness ==
  \E r \in Requests :
    /\ pc[r] = "done"
    /\ \E i, j \in 1..Len(trace[r]) :
         i < j /\ trace[r][i] = Closed(TRUE) /\ trace[r][j] = Closed(FALSE)
    /\ \E i \in 1..Len(events[r]) : events[r][i].data = MissingParametersError

\* C3: a result event is written only when the validation of the normalized
\* parse of the provider's text returned no error, and its payload is that
\* normalized document.
C3_ResultOnlyIfValid ==
  \A r \in Requests : \A i \in 1..Len(events[r]) :
    events[r][i].type = "result" =>
      /\ ParsedOf(completion[r]) # None
      /\ Let(normalizeV6Data(ParsedOf(completion[r])), LAMBDA normalized :
           /\ ~normalized.thrown
           /\ validateJsonSchema(normalized.value, ANALYSIS_SCHEMA).errors = <<>>
           /\ events[r][i].data = normalized.value)

C3_Witness ==
  \E r \in Requests : \E i \in 1..Len(events[r]) :
    /\ events[r][i].type = "result"
    /\ events[r][i].data # ParsedOf(completion[r])

\* C4: when the validation of the normalized document returns errors, there
\* is no result event and at most one error event, every error event of the
\* stream is the schema-violation error with code LLM_SCHEMA_VIOLATION,
\* schema_version v6 and the validator's whole list of errors, and when no
\* write is rejected the stream ends with exactly that one error event.
C4_SchemaViolationError ==
  \A r \in Requests :
    (validation[r] # None /\ Len(validation[r].errors) >= 1) =>
      /\ Count(r, "result") = 0
      /\ Count(r, "error") <= 1
      /\ \A i \in 1..Len(events[r]) :
           events[r][i].type = "error" =>
             IsSchemaViolation(events[r][i].data,
                               validateJsonSchema(normalizedData[r], ANALYSIS_SCHEMA).errors)
      /\ (pc[r] = "done" /\ NoFailedWrite(r)) =>
           (Count(r, "error") = 1 /\ events[r][Len(events[r])].type = "error")

C4_Witness ==
  \E r \in Requests : \E i \in 1..Len(events[r]) :
    /\ pc[r] = "done"
    /\ events[r][i].type = "error"
    /\ "code" \in DOMAIN events[r][i].data
    /\ Len(events[r][i].data.details.errors) >= 2

\* the request is a POST whose body is a JSON object
PostOfObject(r) ==
  request[r] # None /\ request[r].method = "POST" /\ request[r].body.k = "object"

\* the request was turned down for missing parameters
Rejected(r) ==
  \/ pc[r] = "missing"
  \/ \E i \in 1..Len(events[r]) : events[r][i].data = MissingParametersError

\* once req.json() has settled, the request is at the loading of the configuration or past it
ReachedConfiguration(r) ==
  (\E i \in 1..Len(trace[r]) : trace[r][i] = Called("json")) =>
    \/ pc[r] = "configuracao"
    \/ \E i \in 1..Len(trace[r]) :
         trace[r][i].op = "write" /\ trace[r][i].detail = "configuracao"

\* C5 (as stated, refuted by the streaming handler): a POST whose body lacks
\* a required field is answered with a 400 JSON response, no stream is
\* opened and no progress event is sent.
C5_MissingFieldAnswered400 ==
  \A r \in Requests :
    (PostOfObject(r) /\ (~In("context", request[r].body) \/ ~In("image", request[r].body))) =>
      /\ response[r].status = 400
      /\ response[r].contentType = "application/json"
      /\ writer[r] = "none"
      /\ Count(r, "progress") = 0

\* C6 (as stated, refuted): a POST whose body carries non-empty context,
\* jobToBeDone and image is not rejected for missing parameters and goes on
\* to the loading of the configuration.
C6_JobToBeDoneAccepted ==
  \A r \in Requests :
    (/\ PostOfObject(r)
     /\ Truthy(Get(request[r].body, "context"))
     /\ Truthy(Get(request[r].body, "jobToBeDone"))
     /\ Truthy(Get(request[r].body, "image"))) =>
      (~Rejected(r) /\ ReachedConfiguration(r))

\* C6 (amended): a POST whose body carries non-empty context, jtbd and image
\* is not rejected for missing parameters and goes on to the loading of the
\* configuration.
C6_JtbdAccepted ==
  \A r \in Requests :
    (/\ PostOfObject(r)
     /\ Truthy(Get(request[r].body, "context"))
     /\ Truthy(Get(request[r].body, "jtbd"))
     /\ Truthy(Get(request[r].body, "image"))) =>
      (~Rejected(r) /\ ReachedConfiguration(r))

C6_Witness ==
  \E r \in Requests :
    /\ PostOfObject(r)
    /\ Truthy(Get(request[r].body, "context"))
    /\ Truthy(Get(request[r].body, "jtbd"))
    /\ ~In("jobToBeDone", request[r].body)
    /\ Truthy(Get(request[r].body, "image"))
    /\ \E i \in 1..Len(trace[r]) : trace[r][i] = Wrote("progress", "configuracao", TRUE)

\* the order of the steps
StepOrder == <<"inicializando", "configuracao", "manual", "prompt", "api", "processando">>

\* the steps of the progress events of the stream, in order
ProgressSteps(r) ==
  LET progress == SelectSeq(events[r], LAMBDA e : e.type = "progress")
  IN [i \in 1..Len(progress) |-> progress[i].data.step]

IsPrefix(s, t) == Len(s) <= Len(t) /\ s = SubSeq(t, 1, Len(s))

\* the step an external call belongs to
StepOf(name) ==
  CASE name = "getAIConfig" -> "configuracao"
    [] name = "getBrandManual" -> "manual"
    [] name = "createCompletion" -> "api"

\* C7: the steps of the progress events of a stream are a prefix of
\* <inicializando, configuracao, manual, prompt, api, processando>, and the
\* progress event of a step is written just before the step's external call
\* (getAIConfig, getBrandManual, createCompletion) is started.
C7_StepsInOrder ==
  \A r \in Requests :
    /\ IsPrefix(ProgressSteps(r), StepOrder)
    /\ \A i \in 1..Len(trace[r]) :
         (trace[r][i].op = "call" /\ trace[r][i].arg # "json") =>
           (i > 1 /\ trace[r][i - 1] = Wrote("progress", StepOf(trace[r][i].arg), TRUE))

C7_Witness ==
  \E r \in Requests :
    /\ ProgressSteps(r) = StepOrder
    /\ \E i \in 1..Len(trace[r]) : trace[r][i] = Called("createCompletion")

\* the number of times an external call was started
CallCount(r, name) == Cardinality({i \in 1..Len(trace[r]) : trace[r][i] = Called(name)})

\* the read returned a row and no error
HasData(result) ==
  result # None /\ ~Truthy(result.error) /\ Truthy(result.data)

\* a read of the configuration store returned, without a row or with an error
RowAbsent(r) ==
  \/ aiConfig[r] # None /\ ~HasData(aiConfig[r])
  \/ brandManual[r] # None /\ ~HasData(brandManual[r])

NotFoundMessages == {"Configurações da IA não encontradas", "Manual da marca não encontrado"}

\* C8: each external call is made at most once; getBrandManual is called
\* only after getAIConfig returned data and no error, createCompletion only
\* after both reads did; a missing configuration row leaves no result event
\* and no error event with a code, and when no write is rejected the stream
\* ends with one error event that says which row was not found.
C8_CallsOnceAndInOrder ==
  \A r \in Requests :
    /\ \A name \in {"getAIConfig", "getBrandManual", "createCompletion"} : CallCount(r, name) <= 1
    /\ CallCount(r, "getBrandManual") = 1 => HasData(aiConfig[r])
    /\ CallCount(r, "createCompletion") = 1 => (HasData(aiConfig[r]) /\ HasData(brandManual[r]))
    /\ RowAbsent(r) =>
         /\ Count(r, "result") = 0
         /\ Count(r, "error") <= 1
         /\ CallCount(r, "createCompletion") = 0
         /\ \A i \in 1..Len(events[r]) :
              events[r][i].type = "error" =>
                /\ "code" \notin DOMAIN events[r][i].data
                /\ events[r][i].data.message \in NotFoundMessages
         /\ (pc[r] = "done" /\ NoFailedWrite(r)) =>
              (Count(r, "error") = 1 /\ ProgressThenOneTerminal(r))

C8_Witness ==
  \E r \in Requests :
    /\ pc[r] = "done" /\ NoFailedWrite(r)
    /\ HasData(aiConfig[r])
    /\ brandManual[r] = DbResult(Null, Null)
    /\ CallCount(r, "getAIConfig") = 1 /\ CallCount(r, "getBrandManual") = 1
    /\ Count(r, "error") = 1

\* the messages createCompletion rejected with
ProviderThrown(r) ==
  {trace[r][i].detail :
     i \in {j \in 1..Len(trace[r]) :
              trace[r][j].op = "throw" /\ trace[r][j].arg = "createCompletion"}}

\* neither the normalizer nor the validator was applied
NothingRan(r) == \A i \in 1..Len(trace[r]) : trace[r][i].op # "run"

\* C9: when createCompletion throws, the stream gets no result event and at
\* most one error event, normalization and validation are not run, and when
\* no write is rejected the stream ends with exactly one error event whose
\* message is the message of the thrown error, after which the writer is
\* closed.
C9_ProviderThrows ==
  \A r \in Requests :
    ProviderThrown(r) # {} =>
      /\ Count(r, "result") = 0
      /\ Count(r, "error") <= 1
      /\ NothingRan(r)
      /\ (pc[r] = "done" /\ NoFailedWrite(r)) =>
           /\ Count(r, "error") = 1
           /\ ProgressThenOneTerminal(r)
           /\ ProviderThrown(r) = {events[r][Len(events[r])].data.message}

C9_Witness ==
  \E r \in Requests :
    /\ pc[r] = "done" /\ NoFailedWrite(r)
    /\ ProviderThrown(r) = {"429 quota exceeded"}
    /\ Count(r, "error") = 1

\* C10: when the first choice of the completion has no text (absent or
\* empty) or a text that is not well-formed JSON, the stream gets no result
\* event and at most one error event, the normalizer and the validator are
\* not applied, and when no write is rejected the stream ends with exactly
\* one error event.
C10_NoUsableText ==
  \A r \in Requests :
    (completion[r] # None /\ ParsedOf(completion[r]) = None) =>
      /\ Count(r, "result") = 0
      /\ Count(r, "error") <= 1
      /\ NothingRan(r)
      /\ (pc[r] = "done" /\ NoFailedWrite(r)) =>
           (Count(r, "error") = 1 /\ ProgressThenOneTerminal(r))

C10_Witness ==
  \E r \in Requests :
    /\ pc[r] = "done" /\ NoFailedWrite(r)
    /\ completion[r] = Completion(<<Choice(Str("Desculpe, nao consigo"))>>)
    /\ Count(r, "error") = 1

\* a result or an error event was written to the stream
TerminalWritten(r) == Count(r, "result") + Count(r, "error") >= 1

\* C11: for every POST, when every awaited call settles and the consumer
\* keeps reading (the writer is never errored), a terminal result or error
\* event is eventually written and the stream is eventually closed.
C11_EventuallyTerminalAndClosed ==
  \A r \in Requests :
    (pc[r] = "inicializando")
      ~> (writer[r] = "errored" \/ (TerminalWritten(r) /\ writer[r] = "closed"))

C11_Witness ==
  \E r \in Requests :
    /\ pc[r] = "done" /\ settled[r] = "resolved"
    /\ writer[r] = "closed"
    /\ TerminalWritten(r)

\* C12 (as stated, refuted): whatever write fails, the promise of
\* processRequest never rejects: no exception escapes the orchestrator.
C12_PromiseNeverRejects ==
  \A r \in Requests : settled[r] # "rejected"

\* closeWriter does not throw on the writer as it is, and leaves a writer
\* that is not open as it is
CloseNeverThrows(r) ==
  writer[r] # "none" =>
    /\ ~closeWriter(Stream(r)).threw
    /\ writer[r] # "open" =>
         /\ closeWriter(Stream(r)).writer = writer[r]
         /\ closeWriter(Stream(r)).events = events[r]

\* processRequest ends only after a close was attempted
CloseAttempted(r) ==
  pc[r] = "done" => \E i \in 1..Len(trace[r]) : trace[r][i].op = "close"

\* the close of the finally block on a writer that is closed or errored
\* changes neither the writer nor the events, and processRequest ends
SecondCloseChangesNothing ==
  \A r \in Requests :
    (pc[r] \in {"finally", "finallyRethrow"} /\ pc'[r] # pc[r] /\ writer[r] # "open") =>
      /\ pc'[r] = "done"
      /\ writer'[r] = writer[r]
      /\ events'[r] = events[r]
      /\ trace'[r] = Append(trace[r], Closed(FALSE))

\* C13: closeWriter never throws, whether the writer is open, closed or
\* errored; the second close, in the finally block of processRequest after
\* sendErrorResponse closed the writer, is swallowed and changes nothing; and
\* on every path a close is attempted before processRequest ends.
C13_CloseIsSafe ==
  /\ [](\A r \in Requests : CloseNeverThrows(r) /\ CloseAttempted(r))
  /\ [][SecondCloseChangesNothing]_vars

C13_Witness ==
  \E r \in Requests :
    /\ pc[r] = "done"
    /\ \E i \in 2..Len(trace[r]) : trace[r][i - 1] = Closed(TRUE) /\ trace[r][i] = Closed(FALSE)
    /\ events[r][Len(events[r])].type = "error"
    /\ events[r][Len(events[r])].data.error = "Erro na análise"

\* C14: normalization is idempotent: normalizing a document that
\* normalizeV6Data returned gives that same document.
C14_NormalizeIdempotent ==
  \A r \in Requests :
    normalizedData[r] # None =>
      normalizeV6Data(normalizedData[r]) = Returned(normalizedData[r])

C14_Witness ==
  \E r \in Requests :
    /\ pc[r] = "schemaViolation"
    /\ normalizedData[r] # None
    /\ normalizedData[r] # ParsedOf(completion[r])

\* the validator's reports of a missing required field
MissingRequired(errors) ==
  SelectSeq(errors, LAMBDA e : StartsWith(e.message, "Missing required field: "))

\* the value at a path of keys, undefined when the path leaves the document
AtPath(doc, path) ==
  IF Len(path) = 0 THEN doc
  ELSE IF Len(path) = 1 THEN GetOpt(doc, path[1])
  ELSE IF Len(path) = 2 THEN GetOpt(GetOpt(doc, path[1]), path[2])
  ELSE GetOpt(GetOpt(GetOpt(doc, path[1]), path[2]), path[3])

\* the required fields normalizeV6Data assigns a default to
DefaultedPaths ==
  { <<"schemaVersion">>, <<"pontuacaoGeral">>, <<"jobToBeDone">>, <<"tomDeVoz">>,
    <<"experiencia">>, <<"prioridadesTop3">>,
    <<"jobToBeDone", "placeholderExemplo">>, <<"jobToBeDone", "avaliacao">>,
    <<"tomDeVoz", "nota">>, <<"experiencia", "nota">>, <<"experiencia", "cta", "clareza">> }

\* the required fields normalizeV6Data leaves as given, below a section that was given
LeftAsGiven ==
  { <<"jobToBeDone", "avaliacao", "atinge">>, <<"jobToBeDone", "avaliacao", "justificativa">>,
    <<"experiencia", "cta", "recomendacao">> }

\* the path without its last key
Parent(path) == SubSeq(path, 1, Len(path) - 1)

\* C15 (as stated, refuted): after normalization every field the schema
\* declares required is present at every nesting level, so the validator
\* reports no missing required field.
C15_AllRequiredPresent ==
  \A r \in Requests :
    validation[r] # None => MissingRequired(validation[r].errors) = <<>>

\* C15 (amended): after normalization the required fields of the root, of
\* jobToBeDone, tomDeVoz.nota, experiencia.nota and experiencia.cta.clareza
\* are present for every input; the required fields of
\* jobToBeDone.avaliacao and experiencia.cta.recomendacao, below a section
\* the input gave, are present only when the input had them.
C15_DefaultedRequiredPresent ==
  \A r \in Requests :
    normalizedData[r] # None =>
      /\ \A path \in DefaultedPaths : AtPath(normalizedData[r], path) # Undef
      /\ \A path \in LeftAsGiven :
           Truthy(AtPath(ParsedOf(completion[r]), Parent(path))) =>
             AtPath(normalizedData[r], path) = AtPath(ParsedOf(completion[r]), path)

C15_Witness ==
  \E r \in Requests :
    /\ validation[r] # None
    /\ Len(MissingRequired(validation[r].errors)) >= 1
    /\ AtPath(ParsedOf(completion[r]), <<"pontuacaoGeral">>) = Undef
    /\ AtPath(normalizedData[r], <<"pontuacaoGeral">>) = Num(0)

\* the paths, as the validator writes them, of the fields the normalizer always defaults
GuaranteedPaths ==
  { "root.schemaVersion", "root.pontuacaoGeral", "root.jobToBeDone", "root.tomDeVoz",
    "root.experiencia", "root.prioridadesTop3", "root.tomDeVoz.nota", "root.experiencia.nota",
    "root.experiencia.cta.clareza" }

\* C16: for every document normalizeV6Data returns, validateJsonSchema
\* reports no missing required field at root.schemaVersion,
\* root.pontuacaoGeral, root.jobToBeDone, root.tomDeVoz, root.experiencia,
\* root.prioridadesTop3, root.tomDeVoz.nota, root.experiencia.nota and
\* root.experiencia.cta.clareza.
C16_NoMissingDefaulted ==
  \A r \in Requests :
    normalizedData[r] # None =>
      Let(MissingRequired(validateJsonSchema(normalizedData[r], ANALYSIS_SCHEMA).errors),
          LAMBDA missing : \A i \in 1..Len(missing) : missing[i].path \notin GuaranteedPaths)

C16_Witness ==
  \E r \in Requests :
    /\ validation[r] # None /\ validation[r].valid
    /\ Truthy(AtPath(ParsedOf(completion[r]), <<"tomDeVoz">>))
    /\ AtPath(ParsedOf(completion[r]), <<"tomDeVoz", "nota">>) = Undef

\* a number of the range the schema declares for a score
InRange(value) == TypeOf(value) = "number" /\ value.n >= 0 /\ value.n <= 10

\* the four scores, as the validator writes their paths
ScorePathNames ==
  { "root.pontuacaoGeral", "root.tomDeVoz.nota", "root.experiencia.nota",
    "root.experiencia.cta.clareza" }

\* C17: after normalization each of pontuacaoGeral, tomDeVoz.nota,
\* experiencia.nota and experiencia.cta.clareza is a number in [0,10]: a value
\* that was not a number or was out of the range has become 0, a value in the
\* range is unchanged, and the validator reports nothing at these four paths.
C17_ScoresInRange ==
  \A r \in Requests :
    normalizedData[r] # None =>
      /\ \A i \in 1..Len(ScorePaths) :
           Let(<<AtPath(ParsedOf(completion[r]), ScorePaths[i]),
                 AtPath(normalizedData[r], ScorePaths[i])>>,
               LAMBDA score :
                 /\ InRange(score[2])
                 /\ score[2] = IF InRange(score[1]) THEN score[1] ELSE Num(0))
      /\ Let(validateJsonSchema(normalizedData[r], ANALYSIS_SCHEMA).errors,
             LAMBDA errors : \A i \in 1..Len(errors) : errors[i].path \notin ScorePathNames)

C17_Witness ==
  \E r \in Requests :
    /\ validation[r] # None /\ validation[r].valid
    /\ TypeOf(AtPath(ParsedOf(completion[r]), <<"experiencia", "cta", "clareza">>)) = "number"
    /\ AtPath(ParsedOf(completion[r]), <<"experiencia", "cta", "clareza">>).n > 10
    /\ AtPath(normalizedData[r], <<"experiencia", "cta", "clareza">>) = Num(0)

\* the list of priorities the claim expects for a list that was absent or an array
ExpectedPrioridades(given) ==
  IF given = Undef THEN Arr(<<PlaceholderPrioridade>>)
  ELSE IF Len(given.items) = 0 THEN Arr(<<PlaceholderPrioridade>>)
  ELSE IF Len(given.items) > 3 THEN Arr(SubSeq(given.items, 1, 3))
  ELSE given

\* C18: after normalization of a document whose prioridadesTop3 is absent or
\* an array, prioridadesTop3 is an array of 1 to 3 entries: one placeholder
\* for an absent or empty list, the first 3 entries in order for a longer
\* list, the list itself otherwise; the validator reports nothing at
\* root.prioridadesTop3.
C18_PrioridadesBounded ==
  \A r \in Requests :
    normalizedData[r] # None =>
      Let(<<AtPath(ParsedOf(completion[r]), <<"prioridadesTop3">>),
            AtPath(normalizedData[r], <<"prioridadesTop3">>)>>,
          LAMBDA list :
            (list[1] = Undef \/ IsArray(list[1])) =>
              /\ IsArray(list[2])
              /\ Len(list[2].items) \in 1..3
              /\ list[2] = ExpectedPrioridades(list[1])
              /\ Let(validateJsonSchema(normalizedData[r], ANALYSIS_SCHEMA).errors,
                     LAMBDA errors :
                       \A i \in 1..Len(errors) : errors[i].path # "root.prioridadesTop3"))

C18_Witness ==
  \E r \in Requests :
    /\ validation[r] # None /\ validation[r].valid
    /\ IsArray(AtPath(ParsedOf(completion[r]), <<"prioridadesTop3">>))
    /\ Len(AtPath(ParsedOf(completion[r]), <<"prioridadesTop3">>).items) > 3
    /\ AtPath(normalizedData[r], <<"prioridadesTop3">>) = Prioridades(3)

\* the sections the schema leaves optional
OptionalPaths ==
  { <<"objetivoInferido">>, <<"jobToBeDone", "avaliacao", "sugestoes">>,
    <<"tomDeVoz", "manter">>, <<"tomDeVoz", "mudar">>, <<"experiencia", "usabilidade">>,
    <<"experiencia", "visual">>, <<"experiencia", "acessibilidade">>,
    <<"experiencia", "cta">> }

\* a document of version v6 that passes validation as it is and has every
\* optional section populated
ValidAndComplete(doc) ==
  /\ doc # None
  /\ TypeOf(doc) = "object" /\ ~IsArray(doc) /\ doc # Null
  /\ validateJsonSchema(doc, ANALYSIS_SCHEMA).valid
  /\ AtPath(doc, <<"schemaVersion">>) = Str("v6")
  /\ \A path \in OptionalPaths : Truthy(AtPath(doc, path))

\* C19: for a provider document D that is schema-valid, of version v6, with
\* every optional section populated and every score in range,
\* normalizeV6Data(D) equals D, and when no write is rejected the stream ends
\* as progress events followed by exactly one result event whose payload is D.
C19_ValidDocumentUnchanged ==
  \A r \in Requests :
    Let(ParsedOf(completion[r]), LAMBDA D :
      ValidAndComplete(D) =>
        /\ normalizeV6Data(D) = Returned(D)
        /\ normalizedData[r] # None => normalizedData[r] = D
        /\ (pc[r] = "done" /\ NoFailedWrite(r)) =>
             /\ Count(r, "result") = 1 /\ Count(r, "error") = 0
             /\ Count(r, "progress") = Len(events[r]) - 1
             /\ Count(r, "progress") >= 1
             /\ events[r][Len(events[r])] = Event("result", D))

C19_Witness ==
  \E r \in Requests :
    /\ pc[r] = "done" /\ NoFailedWrite(r)
    /\ ValidAndComplete(ParsedOf(completion[r]))
    /\ ParsedOf(completion[r]) = CompleteDoc
    /\ events[r][Len(events[r])] = Event("result", CompleteDoc)

\* a document without pontuacaoGeral whose list of priorities is shorter than
\* the minItems of the schema
LacksScoreAndPriorities(doc) ==
  /\ doc # None
  /\ TypeOf(doc) = "object" /\ ~IsArray(doc) /\ doc # Null
  /\ ~In("pontuacaoGeral", doc)
  /\ IsArray(AtPath(doc, <<"prioridadesTop3">>))
  /\ Len(AtPath(doc, <<"prioridadesTop3">>).items) < 1

\* C20 (as stated, refuted): when the provider's document lacks
\* pontuacaoGeral and has an array shorter than its schema minimum, the stream
\* ends with one error event with code LLM_SCHEMA_VIOLATION whose
\* details.errors has exactly two entries, one at root.pontuacaoGeral and one
\* at the path of the array.
C20_TwoSchemaErrors ==
  \A r \in Requests :
    (pc[r] = "done" /\ NoFailedWrite(r) /\ LacksScoreAndPriorities(ParsedOf(completion[r]))) =>
      /\ Count(r, "error") = 1 /\ Count(r, "result") = 0
      /\ Let(events[r][Len(events[r])], LAMBDA last :
           /\ last.type = "error"
           /\ "code" \in DOMAIN last.data
           /\ last.data.code = "LLM_SCHEMA_VIOLATION"
           /\ Len(last.data.details.errors) = 2
           /\ {last.data.details.errors[i].path : i \in 1..2}
                = {"root.pontuacaoGeral", "root.prioridadesTop3"})

\* the number of times an element occurs in a sequence
CountOf(seq, x) == Cardinality({i \in DOMAIN seq : seq[i] = x})

\* the sequence sub occurs in seq as one block
Occurs(sub, seq) ==
  \E i \in 0..(Len(seq) - Len(sub)) : SubSeq(seq, i + 1, i + Len(sub)) = sub

\* a call whose schema is of type object and whose data is a plain object
ObjectCall(c) ==
  HasField(c.schema, "type") /\ c.schema.type = "object" /\ c.data.k = "object"

\* a call whose schema is of type array and whose data is an array
ArrayCall(c) == HasField(c.schema, "type") /\ c.schema.type = "array" /\ IsArray(c.data)

\* the required keys of the call's schema that its data lacks
AbsentRequired(c) ==
  IF HasField(c.schema, "required")
  THEN {i \in DOMAIN c.schema.required : ~In(c.schema.required[i], c.data)}
  ELSE {}

\* the errors of the i-th property of the call's data, none if the schema has no
\* schema for it
PropertyErrors(c, i) ==
  Let(FieldSchema(c.schema, c.data.pairs[i][1]), LAMBDA fieldSchema :
    IF fieldSchema = Undef THEN <<>>
    ELSE validate(c.data.pairs[i][2], fieldSchema, "root." \o c.data.pairs[i][1]))

\* the errors of the i-th element of the call's data
ElementErrors(c, i) ==
  IF HasField(c.schema, "items")
  THEN validate(c.data.items[i], c.schema.items, "root[" \o ToString(i - 1) \o "]")
  ELSE <<>>

RECURSIVE PropertyErrorCount(_, _)
\* the number of errors of the first i properties of the call's data
PropertyErrorCount(c, i) ==
  IF i = 0 THEN 0 ELSE Len(PropertyErrors(c, i)) + PropertyErrorCount(c, i - 1)

\* C21: validateJsonSchema does not stop at the first violation: for an object
\* the list holds exactly one "Missing required field" error per absent
\* required key, at <path>.<key>, together with every error of every present
\* property that has a schema, and nothing else; for an array it holds the
\* errors of every element, whatever its siblings produced.
C21_AllViolationsReported ==
  \A n \in DOMAIN calls :
    Let(calls[n], LAMBDA c :
      /\ ObjectCall(c) =>
           /\ HasField(c.schema, "required") =>
                \A i \in DOMAIN c.schema.required :
                  CountOf(c.result.errors,
                          ValidationError("Missing required field: " \o c.schema.required[i],
                                          "root." \o c.schema.required[i]))
                    = IF i \in AbsentRequired(c) THEN 1 ELSE 0
           /\ \A i \in DOMAIN c.data.pairs : Occurs(PropertyErrors(c, i), c.result.errors)
           /\ Len(c.result.errors)
                = Cardinality(AbsentRequired(c)) + PropertyErrorCount(c, Len(c.data.pairs))
      /\ ArrayCall(c) =>
           \A i \in DOMAIN c.data.items : Occurs(ElementErrors(c, i), c.result.errors))

C21_Witness ==
  \E n \in DOMAIN calls :
    /\ ObjectCall(calls[n])
    /\ Cardinality(AbsentRequired(calls[n])) >= 2
    /\ \E i, j \in DOMAIN calls[n].data.pairs :
         i # j /\ PropertyErrors(calls[n], i) # <<>> /\ PropertyErrors(calls[n], j) # <<>>

\* the error for an array shorter than the bound
AtLeast(bound, path) ==
  ValidationError("Array must have at least " \o ToString(bound) \o " items", path)

RECURSIVE ElementErrorCount(_, _)
\* the number of errors of the first i elements of the call's data
ElementErrorCount(c, i) ==
  IF i = 0 THEN 0 ELSE Len(ElementErrors(c, i)) + ElementErrorCount(c, i - 1)

\* C22: for an array schema with minItems = N and an array of fewer than N
\* elements, validateJsonSchema reports exactly one "at least N items" error,
\* at the path of the array, and no error for an element that is not there:
\* every other error is an error of an element the array has.
C22_OneErrorBelowMinItems ==
  \A n \in DOMAIN calls :
    Let(calls[n], LAMBDA c :
      /\ (ArrayCall(c) /\ HasField(c.schema, "minItems")
             /\ Len(c.data.items) < c.schema.minItems) =>
           /\ CountOf(c.result.errors, AtLeast(c.schema.minItems, "root")) = 1
           /\ Cardinality({i \in DOMAIN c.result.errors : c.result.errors[i].path # "root"})
                = ElementErrorCount(c, Len(c.data.items))
      /\ (c.schema = ANALYSIS_SCHEMA /\ c.data.k = "object"
             /\ IsArray(GetOpt(c.data, "prioridadesTop3"))
             /\ Len(GetOpt(c.data, "prioridadesTop3").items) < PrioridadesSchema.minItems) =>
           /\ CountOf(c.result.errors,
                      AtLeast(PrioridadesSchema.minItems, "root.prioridadesTop3")) = 1
           /\ \A i \in DOMAIN c.result.errors :
                ~StartsWith(c.result.errors[i].path, "root.prioridadesTop3["))

C22_Witness ==
  \E n \in DOMAIN calls :
    /\ ArrayCall(calls[n])
    /\ HasField(calls[n].schema, "minItems")
    /\ calls[n].schema.minItems - Len(calls[n].data.items) >= 2
    /\ calls[n].result.errors = <<AtLeast(calls[n].schema.minItems, "root")>>

\* the error of a value that is neither a string nor null
NotStringOrNull(path) == ValidationError("Expected one of types: string, null", path)

\* C23: for a schema node whose type is the union of string and null,
\* validateJsonSchema reports nothing for a string and for null, and exactly
\* one "Expected one of types" error for a number, a boolean, an array or an
\* object; the same holds for experiencia.cta.principal inside a document.
C23_StringOrNull ==
  \A n \in DOMAIN calls :
    Let(calls[n], LAMBDA c :
      /\ c.schema = StringOrNullSchema =>
           c.result.errors
             = IF c.data.k \in {"string", "null"} THEN <<>> ELSE <<NotStringOrNull("root")>>
      /\ (c.schema = ANALYSIS_SCHEMA
             /\ AtPath(c.data, <<"experiencia", "cta">>).k = "object"
             /\ In("principal", AtPath(c.data, <<"experiencia", "cta">>))) =>
           CountOf(c.result.errors, NotStringOrNull("root.experiencia.cta.principal"))
             = IF AtPath(c.data, <<"experiencia", "cta", "principal">>).k \in {"string", "null"}
               THEN 0 ELSE 1)

C23_Witness ==
  \E i, j \in DOMAIN calls :
    /\ calls[i].schema = StringOrNullSchema /\ calls[j].schema = StringOrNullSchema
    /\ calls[i].data = Null /\ calls[i].result.valid
    /\ calls[j].data = Num(5) /\ calls[j].result.errors = <<NotStringOrNull("root")>>

Untouched(q) ==
  /\ pc'[q] = pc[q] /\ request'[q] = request[q] /\ response'[q] = response[q]
  /\ writer'[q] = writer[q] /\ events'[q] = events[q] /\ trace'[q] = trace[q]
  /\ error'[q] = error[q] /\ aiConfig'[q] = aiConfig[q] /\ brandManual'[q] = brandManual[q]
  /\ completion'[q] = completion[q] /\ normalizedData'[q] = normalizedData[q]
  /\ validation'[q] = validation[q] /\ settled'[q] = settled[q]

\* a step is a step of one request
StepOfOneRequest ==
  \E r \in ConcurrentRequests : \A q \in ConcurrentRequests \ {r} : Untouched(q)

\* C25: two POST requests processed concurrently, interleaved at every await,
\* are independent: a step of one request writes to that request's stream
\* only and changes nothing of the other request; each stream on its own is
\* progress events, then one terminal event, then the close, when none of its
\* writes is rejected; and the shared ANALYSIS_SCHEMA is never modified.
C25_ConcurrentIndependent ==
  /\ [][StepOfOneRequest]_vars
  /\ [](/\ schema = ANALYSIS_SCHEMA
        /\ \A r \in ConcurrentRequests :
             NoFailedWrite(r) =>
               /\ TerminalOnlyLast(r)
               /\ pc[r] = "done" => ProgressThenOneTerminal(r))

C25_Witness ==
  /\ \A r \in ConcurrentRequests : pc[r] = "done" /\ NoFailedWrite(r) /\ writer[r] = "closed"
  /\ events[1][Len(events[1])].type = "result"
  /\ events[2][Len(events[2])].type = "error"
  /\ Len(events[1]) > 1 /\ Len(events[2]) > 1

\* a document with a root-level key that ANALYSIS_SCHEMA does not declare
HasUndeclaredKey(doc) ==
  /\ doc # None
  /\ doc.k = "object"
  /\ \E i \in DOMAIN doc.pairs : ~PairsHas(ANALYSIS_SCHEMA.properties, doc.pairs[i][1])

\* C26 (as stated, refuted): a document with a root-level key that
\* ANALYSIS_SCHEMA, whose root has additionalProperties false, does not
\* declare is reported as a schema violation and never emitted as a result.
C26_UndeclaredKeyRejected ==
  \A r \in Requests :
    (~ANALYSIS_SCHEMA.additionalProperties /\ HasUndeclaredKey(ParsedOf(completion[r]))) =>
      /\ Count(r, "result") = 0
      /\ (pc[r] = "done" /\ NoFailedWrite(r)) =>
           /\ Count(r, "error") = 1
           /\ "code" \in DOMAIN events[r][Len(events[r])].data
           /\ events[r][Len(events[r])].data.code = "LLM_SCHEMA_VIOLATION"

\* the error for an array longer than the bound
AtMost(bound, path) ==
  ValidationError("Array must have at most " \o ToString(bound) \o " items", path)

\* C27 (as stated, refuted): for an array schema with maxItems = N, N = 0
\* included, and an array of more than N elements, validateJsonSchema
\* reports exactly one "at most N items" error at the path of the array,
\* and every element is still validated against the items schema.
C27_OneErrorAboveMaxItems ==
  \A n \in DOMAIN calls :
    Let(calls[n], LAMBDA c :
      (ArrayCall(c) /\ HasField(c.schema, "maxItems")
         /\ Len(c.data.items) > c.schema.maxItems) =>
        /\ CountOf(c.result.errors, AtMost(c.schema.maxItems, "root")) = 1
        /\ \A i \in DOMAIN c.data.items : Occurs(ElementErrors(c, i), c.result.errors))

\* C28 (as stated, refuted): normalizeV6Data is total: for every value
\* JSON.parse produces, a section that is a number, a string or a boolean
\* included, it returns a document, so that a parseable output of the provider
\* ends in a result or in the LLM_SCHEMA_VIOLATION error and never in the
\* generic "Erro na análise" error.
C28_NormalizeTotal ==
  \A r \in Requests :
    ParsedOf(completion[r]) # None =>
      /\ ~normalizeV6Data(ParsedOf(completion[r])).thrown
      /\ (pc[r] = "done" /\ NoFailedWrite(r)) =>
           Let(events[r][Len(events[r])], LAMBDA last :
             \/ last.type = "result"
             \/ /\ last.type = "error"
                /\ "code" \in DOMAIN last.data
                /\ last.data.code = "LLM_SCHEMA_VIOLATION")

\* the places where normalizeV6Data assigns a default to a falsy value
FalsyDefaulted ==
  { "root.objetivoInferido", "root.jobToBeDone", "root.jobToBeDone.placeholderExemplo",
    "root.jobToBeDone.avaliacao", "root.jobToBeDone.avaliacao.sugestoes", "root.tomDeVoz",
    "root.tomDeVoz.manter", "root.tomDeVoz.mudar", "root.experiencia",
    "root.experiencia.usabilidade", "root.experiencia.visual",
    "root.experiencia.acessibilidade", "root.experiencia.cta", "root.prioridadesTop3" }

\* the two replacements the claim names: a score that is no number of [0,10],
\* and a list of priorities of more than 3 entries
ReplacedAsStated(given, path) ==
  \/ path \in ScorePathNames /\ ~InRange(given)
  \/ path = "root.prioridadesTop3" /\ IsArray(given) /\ Len(given.items) > 3

\* the replacements the code makes besides: the version, a falsy value where a
\* default exists, an empty list of priorities and a string of priorities cut
\* to 3 characters
ReplacedBesides(given, path) ==
  \/ path = "root.schemaVersion"
  \/ path \in FalsyDefaulted /\ ~Truthy(given)
  \/ path = "root.prioridadesTop3" /\ GetOpt(given, "length") = Num(0)
  \/ path = "root.prioridadesTop3" /\ given.k = "string" /\ Len(given.s) > 3

RECURSIVE Kept(_, _, _, _)
\* every key and value supplied in `given` is in `out`, unchanged, but for the
\* replacements named, and those made besides when `besides` is true
Kept(given, out, path, besides) ==
  IF ReplacedAsStated(given, path) \/ (besides /\ ReplacedBesides(given, path)) THEN TRUE
  ELSE IF given.k = "object"
  THEN /\ out.k = "object"
       /\ \A i \in DOMAIN given.pairs :
            /\ PairsHas(out.pairs, given.pairs[i][1])
            /\ Kept(given.pairs[i][2], PairsGet(out.pairs, given.pairs[i][1]),
                    path \o "." \o given.pairs[i][1], besides)
  ELSE IF given.k = "array" THEN out.k = "array" /\ out.items = given.items
  ELSE out = given

RECURSIVE StringsIn(_)
\* the strings that occur in a value
StringsIn(x) ==
  CASE x.k = "string" -> {x.s}
    [] x.k = "object" -> UNION {StringsIn(x.pairs[i][2]) : i \in DOMAIN x.pairs}
    [] x.k = "array" ->
         UNION ({StringsIn(x.items[i]) : i \in DOMAIN x.items}
                \cup {StringsIn(x.p[i][2]) : i \in DOMAIN x.p})
    [] OTHER -> {}

\* the texts of the placeholder priority
PlaceholderTexts == {"Prioridade não identificada", "Análise incompleta ou dados insuficientes"}

RECURSIVE PropertiesInOrder(_, _)
\* the errors of the call's properties from the i-th on, in the order of the keys
PropertiesInOrder(c, i) ==
  IF i > Len(c.data.pairs) THEN <<>> ELSE PropertyErrors(c, i) \o PropertiesInOrder(c, i + 1)

RECURSIVE ElementsInOrder(_, _)
\* the errors of the call's elements from the i-th on, by ascending index
ElementsInOrder(c, i) ==
  IF i > Len(c.data.items) THEN <<>> ELSE ElementErrors(c, i) \o ElementsInOrder(c, i + 1)

\* the errors a node raises about itself come first: missing required fields,
\* array bounds
OwnErrors(c) ==
  SelectSeq(c.result.errors, LAMBDA e :
    \/ (StartsWith(e.message, "Missing required field: ")
          /\ \E i \in AbsentRequired(c) : e.path = "root." \o c.schema.required[i])
    \/ (StartsWith(e.message, "Array must have at ") /\ e.path = "root"))

\* C30: the error list follows the traversal of the document, depth first:
\* after the errors a node raises about itself come the errors of its
\* properties in the key order of the value, or of its elements by ascending
\* index; so an error under key a precedes an error under key b whenever a
\* precedes b in the document.
C30_ErrorsInDocumentOrder ==
  \A n \in DOMAIN calls :
    Let(calls[n], LAMBDA c :
      /\ ObjectCall(c) => c.result.errors = OwnErrors(c) \o PropertiesInOrder(c, 1)
      /\ ArrayCall(c) => c.result.errors = OwnErrors(c) \o ElementsInOrder(c, 1))

C30_Witness ==
  \E n \in DOMAIN calls :
    /\ ObjectCall(calls[n])
    /\ OwnErrors(calls[n]) # <<>>
    /\ \E i, j \in DOMAIN calls[n].data.pairs :
         /\ i < j
         /\ PropertyErrors(calls[n], i) # <<>>
         /\ Len(PropertyErrors(calls[n], j)) >= 2

(***************************************************************************)
(* What a call of buildPrompt returns.                                     *)
(***************************************************************************)
\* the values of the four tokens, in the order of Tokens
ValuesOf(c) ==
  <<c.requestBody.context, c.requestBody.jtbd, c.manual.voice_principles, c.manual.rules>>

\* the pieces that String.prototype.replace expands in a replacement
Patterns == {"$$", "$&", "$^", "$'"}

\* a value that holds none of the four tokens and no replacement pattern
PlainValue(value) ==
  \A i \in DOMAIN value :
    value[i] \notin Patterns /\ \A k \in DOMAIN Tokens : value[i] # Tokens[k]

\* the piece at place i of the template is the first occurrence of token k
FirstOf(template, i, k) == template[i] = Tokens[k] /\ IndexOf(template, Tokens[k]) = i

\* the template with the first occurrence of each of the four tokens replaced
\* by its value as it is, and every other piece as it is
RECURSIVE EachTokenOnce(_, _, _)
EachTokenOnce(template, values, i) ==
  IF i > Len(template) THEN <<>>
  ELSE (IF \E k \in DOMAIN Tokens : FirstOf(template, i, k)
        THEN values[CHOOSE k \in DOMAIN Tokens : FirstOf(template, i, k)]
        ELSE <<template[i]>>)
       \o EachTokenOnce(template, values, i + 1)

C32_ValuesNotRescanned ==
  \A n \in DOMAIN calls :
    (/\ IndexOf(calls[n].config.prompt_template, Tokens[1]) # 0
     /\ \E i \in DOMAIN calls[n].requestBody.context :
          calls[n].requestBody.context[i] \in {Tokens[2], Tokens[4]}
     /\ \A k \in DOMAIN Tokens : \A i \in DOMAIN ValuesOf(calls[n])[k] :
          ValuesOf(calls[n])[k][i] \notin Patterns) =>
      calls[n].prompt = EachTokenOnce(calls[n].config.prompt_template, ValuesOf(calls[n]), 1)

(***************************************************************************)
(* What a call of prepareImageContent returns.                             *)
(***************************************************************************)
\* the image format named in a synthesized data URI
FormatOf(imageType) == IF imageType \in {Undef, Null, Str("")} THEN "jpeg" ELSE imageType.s

\* C33: for an image that is a string, the url returned is the image itself
\* when imageType is 'url' or the image starts with 'http', else the image
\* itself when it starts with 'data:', else 'data:image/' + (imageType or
\* 'jpeg') + ';base64,' + image.  So the url starts with 'http' or 'data:'
\* unless imageType is 'url', and the function applied to the url it returned,
\* with the same imageType, returns that url.
C33_PrepareImageContent ==
  \A n \in DOMAIN calls :
    Let(calls[n], LAMBDA c :
      c.image.k = "string" =>
        /\ ~c.result.thrown
        /\ c.result.value =
             (IF c.imageType = Str("url") \/ StartsWith(c.image.s, "http") THEN c.image
              ELSE IF StartsWith(c.image.s, "data:") THEN c.image
              ELSE Str("data:image/" \o FormatOf(c.imageType) \o ";base64," \o c.image.s))
        /\ c.imageType # Str("url") =>
             StartsWith(c.result.value.s, "http") \/ StartsWith(c.result.value.s, "data:")
        /\ n > 1 => c.result = calls[n - 1].result)

\* bare base64 text was given a data URI, and the second call returned the
\* same url
C33_Witness ==
  /\ Len(calls) = 2
  /\ calls[1].image = Str("AAAA")
  /\ calls[1].imageType = Str("png")
  /\ calls[1].result.value = Str("data:image/png;base64,AAAA")
  /\ calls[2].image = calls[1].result.value
  /\ calls[2].result = calls[1].result

(***************************************************************************)
(* What validateJsonSchema leaves of its arguments.                        *)
(***************************************************************************)
\* C34: validateJsonSchema modifies neither the value it validates nor the
\* schema: in every reachable state the schema is ANALYSIS_SCHEMA as it was
\* loaded, and once a request's document has been validated it is still the
\* document normalizeV6Data returned, on which a second validation against
\* the schema gives the same outcome; the result event carries that document.
C34_ValidatorLeavesArguments ==
  /\ schema = ANALYSIS_SCHEMA
  /\ \A r \in DOMAIN validation :
       validation[r] # None =>
         /\ normalizedData[r] = normalizeV6Data(ParsedOf(completion[r])).value
         /\ validation[r] = validateJsonSchema(normalizedData[r], schema)
         /\ \A i \in DOMAIN events[r] :
              events[r][i].type = "result" => events[r][i].data = normalizedData[r]

\* a document that normalization changed was validated without violations
\* and sent as the result
C34_Witness ==
  \E r \in DOMAIN validation :
    /\ validation[r] # None
    /\ validation[r].valid
    /\ normalizedData[r] # ParsedOf(completion[r])
    /\ \E i \in DOMAIN events[r] : events[r][i].type = "result"

(***************************************************************************)
(* When handleRequest returns its response.                                *)
(***************************************************************************)
\* C35: handleRequest returns without awaiting processRequest.  For a POST
\* the SSE response has been returned in every state in which an event has
\* been written, a call has been made or a configuration row or completion
\* has arrived; for OPTIONS and every other method the response is returned
\* with no stream created, no event written and no call made, then or later.
C35_ResponseNotAwaited ==
  \A r \in DOMAIN request :
    /\ (\/ events[r] # <<>> \/ trace[r] # <<>> \/ writer[r] # "none"
        \/ aiConfig[r] # None \/ brandManual[r] # None \/ completion[r] # None) =>
         /\ request[r] # None
         /\ request[r].method = "POST"
         /\ response[r] = SSEResponse
    /\ (request[r] # None /\ request[r].method # "POST") =>
         /\ response[r] = ResponseFor(request[r].method)
         /\ response[r] # SSEResponse
         /\ pc[r] = "responded"

\* the response of a POST has been returned and the configuration has been
\* read since, with the analysis still under way
C35_Witness ==
  \E r \in DOMAIN request :
    /\ request[r] # None
    /\ request[r].method = "POST"
    /\ response[r] = SSEResponse
    /\ aiConfig[r] # None
    /\ completion[r] = None
    /\ settled[r] = "pending"

(***************************************************************************)
(* A model output without content.                                         *)
(***************************************************************************)
\* the parseable outputs that carry no content: {}, null and []
Contentless == {Obj(<<>>), Null, Arr(<<>>)}

\* the lists of a document, at any depth
RECURSIVE ListsIn(_)
ListsIn(x) ==
  CASE x.k = "object" -> UNION {ListsIn(x.pairs[i][2]) : i \in DOMAIN x.pairs}
    [] x.k = "array" -> {x} \cup UNION {ListsIn(x.items[i]) : i \in DOMAIN x.items}
    [] OTHER -> {}

\* C36: when the model's text parses to {}, null or [], normalizeV6Data
\* returns a fully defaulted document: schemaVersion 'v6', the four scores 0,
\* one placeholder priority, every other list empty and every other string
\* empty.  validateJsonSchema finds no error in it, and when no write is
\* rejected no error event is written and the stream ends with the result
\* event that carries the document.
C36_ContentlessOutputDefaulted ==
  \A r \in DOMAIN completion :
    ParsedOf(completion[r]) \in Contentless =>
      /\ normalizeV6Data(ParsedOf(completion[r])) = normalizeV6Data(Obj(<<>>))
      /\ normalizedData[r] # None =>
           /\ AtPath(normalizedData[r], <<"schemaVersion">>) = Str("v6")
           /\ \A i \in DOMAIN ScorePaths : AtPath(normalizedData[r], ScorePaths[i]) = Num(0)
           /\ AtPath(normalizedData[r], <<"prioridadesTop3">>) = Arr(<<PlaceholderPrioridade>>)
           /\ ListsIn(normalizedData[r]) \subseteq {Arr(<<>>), Arr(<<PlaceholderPrioridade>>)}
           /\ StringsIn(normalizedData[r]) \subseteq {"", "v6"} \cup PlaceholderTexts
           /\ validation[r] = [valid |-> TRUE, errors |-> <<>>]
      /\ (pc[r] = "done" /\ NoFailedWrite(r)) =>
           /\ normalizedData[r] # None
           /\ Count(r, "error") = 0
           /\ events[r][Len(events[r])] = Event("result", normalizedData[r])

\* the text "null" was parsed, and the stream ended with the result event
\* that carries the defaulted document
C36_Witness ==
  \E r \in DOMAIN completion :
    /\ ParsedOf(completion[r]) = Null
    /\ pc[r] = "done"
    /\ NoFailedWrite(r)
    /\ events[r][Len(events[r])] = Event("result", normalizeV6Data(Obj(<<>>)).value)

(***************************************************************************)
(* What the non-streaming handlers answer.                                 *)
(***************************************************************************)
\* the text the provider answered with, None when it gave none
LegacyText(completed) ==
  IF completed = None \/ completed.k = "throws" THEN None
  ELSE IF extractAnalysisResult(completed).thrown THEN None
  ELSE IF ~Truthy(extractAnalysisResult(completed).value) THEN None
  ELSE extractAnalysisResult(completed).value

\* a read of the configuration that rejected or resolved with an error
FetchFailed(result) ==
  result # None /\ (result = Rejects \/ Truthy(result.error))

\* the response is a 500 without a success body
IsFailure(answer) == answer.status = 500 /\ "success" \notin DOMAIN answer.body

\* C37: in both non-streaming handlers every request gets exactly one
\* response: the handler ends, it returns a response when it does, and a
\* response once returned is never replaced.  A model text that is not well-formed JSON is answered with
\* status 200, success: true and data {analysis: <text>}; a provider call
\* that throws, and a configuration read that fails, are answered with
\* status 500 and no success body.
C37_LegacyOneResponse ==
  /\ [](\A r \in Requests :
          /\ (response[r] # None) <=> (pc[r] = "responded")
          /\ (LegacyText(completion[r]) # None /\ JSONParse(LegacyText(completion[r])).thrown) =>
               /\ response[r] # None
               /\ response[r].status = 200
               /\ response[r].body =
                    [success |-> TRUE,
                     data |-> Obj(<< <<"analysis", LegacyText(completion[r])>> >>)]
          /\ (completion[r] # None /\ completion[r].k = "throws") =>
               response[r] # None /\ IsFailure(response[r])
          /\ (FetchFailed(aiConfig[r]) \/ FetchFailed(brandManual[r])) =>
               response[r] # None /\ IsFailure(response[r]))
  /\ [][\A r \in Requests : response[r] # None => response'[r] = response[r]]_vars
  /\ \A r \in Requests : <>(response[r] # None)

\* the GPT-5 handler answered a text that is no JSON with status 200
C37_Witness ==
  \E r \in Requests :
    /\ env = "gpt-5"
    /\ pc[r] = "responded"
    /\ LegacyText(completion[r]) = Str("Desculpe, nao consigo")
    /\ response[r].status = 200
    /\ response[r].body.data = Obj(<< <<"analysis", Str("Desculpe, nao consigo")>> >>)

====
